---- MODULE Spec2Model ----
(***************************************************************************)
(* Notification service of the koperasi mobile app                         *)
(* (services/notification.service.ts): a client-side aggregator over a     *)
(* hosted relational backend.  The backend tables are the store, the       *)
(* module-level notificationCache is the cache, and every public           *)
(* operation of NotificationService is one action.  Every remote call can  *)
(* succeed, return an error object, or reject (throw).                     *)
(***************************************************************************)
EXTENDS Integers, Sequences, FiniteSets, TLC

(***************************************************************************)
(* Bounds                                                                  *)
(***************************************************************************)
MaxTn == 1          \* rows of transaksi_notifikasi
MaxGn == 1          \* rows of global_notifikasi
MaxTime == 2        \* instants the clock behind new Date() can read
SmallLimit == 1     \* a limit small enough to truncate
MaxCached == 1      \* entries held by notificationCache at one time
MaxRows == 3        \* rows of global_notifikasi_read while calls overlap
MaxTypeRows == 2    \* rows of each notification table the queries read
MaxListing == 1     \* getNotifications calls suspended at one time
MaxTimers == 2      \* setTimeout callbacks of the PIN screen pending at one time
MaxSaves == 2       \* setAccountPin calls of one PIN screen
MaxDels == 2        \* presses of the del key on one PIN screen

DefaultLimit == 50  \* default value of getNotifications' limit parameter

Members == {"m1", "m2"}
NoMember == "none"              \* anggotaId omitted (undefined)
TxIds == {"t1"}                 \* transactions; m1 owns them, m2 has none
NoTx == "none"                  \* no transaksi_id on the item
NoSource == "auto"              \* source omitted (undefined)
Sources == {"transaction", "global"}
Limits == {0, SmallLimit, DefaultLimit}

TnIds == 1..MaxTn
GnIds == {MaxTn + k : k \in 1..MaxGn}      \* the two tables share no id
NotificationIds == TnIds \cup GnIds

VARIABLES
    transaksi,              \* table transaksi: id -> anggota_id (owner)
    transaksi_notifikasi,   \* table transaksi_notifikasi, in insertion order
    global_notifikasi,      \* table global_notifikasi, in insertion order
    global_notifikasi_read, \* table global_notifikasi_read, in key order
    notificationCache,      \* module-level cache: <<anggotaId, limit>> -> list
    last,                   \* the call that completed last and what it returned
    inflight,               \* markAsRead calls suspended at an await, per caller
    screen                  \* SecuritySetupScreen: its state, timers and calls

vars == <<transaksi, transaksi_notifikasi, global_notifikasi,
          global_notifikasi_read, notificationCache, last, inflight, screen>>

store == <<transaksi, transaksi_notifikasi, global_notifikasi, global_notifikasi_read>>

(***************************************************************************)
(* Generic helpers                                                         *)
(***************************************************************************)
Min(a, b) == IF a <= b THEN a ELSE b

Range(s) == {s[i] : i \in DOMAIN s}

\* Array.prototype.slice(0, n) / PostgREST .limit(n)
Slice(s, n) == SubSeq(s, 1, Min(n, Len(s)))

\* new Date(created_at).getTime(): created_at is the ISO string written by
\* new Date().toISOString(), kept here as its millisecond instant.
DateGetTime(created_at) == created_at

\* insert x behind every element that is not older than x
InsertByDate(s, x) ==
    LET older == {i \in DOMAIN s : DateGetTime(s[i].created_at) < DateGetTime(x.created_at)}
        pos == IF older = {} THEN Len(s) + 1
               ELSE CHOOSE i \in older : \A j \in older : i <= j
    IN  SubSeq(s, 1, pos - 1) \o <<x>> \o SubSeq(s, pos, Len(s))

RECURSIVE StableSortDesc(_)
StableSortDesc(s) ==
    IF s = <<>> THEN <<>>
    ELSE InsertByDate(StableSortDesc(SubSeq(s, 1, Len(s) - 1)), s[Len(s)])

\* .order("created_at", { ascending: false }) evaluated by the backend
OrderByCreatedAtDesc(rows) == StableSortDesc(rows)


(***************************************************************************)
(* Remote calls.  Every call ends in one of three ways.                    *)
(***************************************************************************)
Ok == "ok"          \* { data, error: null }
Err == "error"      \* { data: null, error }
Throw == "throw"    \* the awaited promise rejects

Call(name, outcome) == <<name, outcome>>

EmptyCache == <<>>

\* a cache key that forgets the limit
CacheKey_NoLimit(anggotaId, limit) == <<anggotaId>>

\* `notifications-${anggotaId}-${limit}`
CacheKey(anggotaId, limit) == <<anggotaId, limit>>

CachePut(cache, key, value) ==
    [k \in (DOMAIN cache) \cup {key} |-> IF k = key THEN value ELSE cache[k]]

(***************************************************************************)
(* Backend queries (PostgREST semantics over the tables)                   *)
(***************************************************************************)
\* from("transaksi").select("id").eq("anggota_id", anggotaId)
MemberTransactionIds(anggotaId) ==
    {t \in DOMAIN transaksi : transaksi[t] = anggotaId}

\* a fallback query that finds no row
TransactionNotificationsIn_None(ids, limit) == <<>>

\* from("transaksi_notifikasi").select("*").in("transaksi_id", ids)
\*   .order("created_at", desc).limit(limit)
TransactionNotificationsIn(ids, limit) ==
    Slice(OrderByCreatedAtDesc(
              SelectSeq(transaksi_notifikasi, LAMBDA r : r.transaksi_id \in ids)),
          limit)

\* rpc("get_member_transaction_notifications", { member_id }).limit(limit):
\* the notifications of the member's transactions, joined in the backend
RpcMemberTransactionNotifications(anggotaId, limit) ==
    Slice(OrderByCreatedAtDesc(
              SelectSeq(transaksi_notifikasi,
                        LAMBDA r : /\ r.transaksi_id \in DOMAIN transaksi
                                   /\ transaksi[r.transaksi_id] = anggotaId)),
          limit)

\* from("transaksi_notifikasi").select("*").eq("jenis", jenis)
\*   .order("created_at", desc).limit(limit)
TransactionNotificationsOfType(jenis, limit) ==
    Slice(OrderByCreatedAtDesc(
              SelectSeq(transaksi_notifikasi, LAMBDA r : r.jenis = jenis)),
          limit)

\* from("global_notifikasi").select("*").order("created_at", desc)
AllGlobalNotifications == OrderByCreatedAtDesc(global_notifikasi)

\* rows of global_notifikasi_read for one (notification, member) pair
ReadRows(gid, anggotaId) ==
    SelectSeq(global_notifikasi_read,
              LAMBDA r : r.global_notifikasi_id = gid /\ r.anggota_id = anggotaId)

\* rows of global_notifikasi_read for one member
MemberReadRows(anggotaId) ==
    SelectSeq(global_notifikasi_read, LAMBDA r : r.anggota_id = anggotaId)

\* rpc("get_member_global_notifications", { member_id }): every global
\* notification, joined with this member's read flag
RpcMemberGlobalNotifications(anggotaId) ==
    LET flag(g) == IF ReadRows(g.id, anggotaId) = <<>> THEN FALSE
                   ELSE ReadRows(g.id, anggotaId)[1].is_read
    IN  [i \in DOMAIN AllGlobalNotifications |->
            [id |-> AllGlobalNotifications[i].id,
             jenis |-> AllGlobalNotifications[i].jenis,
             created_at |-> AllGlobalNotifications[i].created_at,
             is_read |-> flag(AllGlobalNotifications[i])]]

\* from("global_notifikasi").select("..., global_notifikasi_read!inner(...)")
\*   .eq("global_notifikasi_read.anggota_id", anggotaId).order(created_at desc)
GlobalJoinInner(anggotaId) ==
    LET joined == SelectSeq(AllGlobalNotifications,
                            LAMBDA g : ReadRows(g.id, anggotaId) # <<>>)
    IN  [i \in DOMAIN joined |->
            [id |-> joined[i].id,
             jenis |-> joined[i].jenis,
             created_at |-> joined[i].created_at,
             global_notifikasi_read |-> ReadRows(joined[i].id, anggotaId)]]

(***************************************************************************)
(* The record of the call that completed last                              *)
(***************************************************************************)
Completed(op, anggotaId, notificationId, limit, forceRefresh, ok, caught, remote, ret) ==
    [op |-> op, anggotaId |-> anggotaId, notificationId |-> notificationId,
     limit |-> limit, forceRefresh |-> forceRefresh,
     ok |-> ok,             \* the boolean (or success flag) returned
     caught |-> caught,     \* the outer catch block produced the return value
     remote |-> remote,     \* at least one remote call was issued
     ret |-> ret]           \* the list returned

Remote(trace) == trace # <<>>

\* the same outcomes without the record of which calls produced them
Untraced(outcomes) == {[o EXCEPT !.trace = <<>>] : o \in outcomes}

(***************************************************************************)
(* createNotification                                                      *)
(***************************************************************************)
GlobalTypes == {"pengumuman", "sistem"}
TransactionTypes == {"transaksi", "jatuh_tempo"}

NextTnId == Len(transaksi_notifikasi) + 1
NextGnId == MaxTn + Len(global_notifikasi) + 1

\* notification.anggota_ids, an array of distinct member ids
MemberOrder == <<"m1", "m2">>

ReadStatusEntries(gid, members, is_read) ==
    LET ms == SelectSeq(MemberOrder, LAMBDA m : m \in members)
    IN  [i \in DOMAIN ms |->
            [global_notifikasi_id |-> gid, anggota_id |-> ms[i], is_read |-> is_read]]

\* every way one call of createNotification can end in the current state
\* n: [source, jenis, is_read, anggota_id, anggota_ids, transaksi_id, data_transaksi_id]
\* now: the instant new Date() reads
CreateNotificationOutcomes(n, now) ==
    LET isGlobal == n.source = "global" \/ n.jenis \in GlobalTypes
        transaksiId == IF n.transaksi_id # NoTx THEN n.transaksi_id
                       ELSE n.data_transaksi_id
        targets == IF n.anggota_id # NoMember THEN {n.anggota_id} ELSE n.anggota_ids
        out(success, id, tn, gn, rd, trace) ==
            [success |-> success, id |-> id, tn |-> tn, gn |-> gn, rd |-> rd,
             trace |-> trace]
        unchanged(trace) == out(FALSE, 0, transaksi_notifikasi, global_notifikasi,
                                global_notifikasi_read, trace)
        gn == Append(global_notifikasi,
                     [id |-> NextGnId, jenis |-> n.jenis, created_at |-> now])
        tn == Append(transaksi_notifikasi,
                     [id |-> NextTnId, transaksi_id |-> transaksiId, jenis |-> n.jenis,
                      is_read |-> n.is_read, created_at |-> now])
    IN  IF isGlobal
        THEN {unchanged(<<Call("gn_insert", Err)>>),
              unchanged(<<Call("gn_insert", Throw)>>)}
             \cup
             (IF targets = {}
              THEN {out(TRUE, NextGnId, transaksi_notifikasi, gn,
                        global_notifikasi_read, <<Call("gn_insert", Ok)>>)}
              ELSE {out(TRUE, NextGnId, transaksi_notifikasi, gn,
                        global_notifikasi_read \o
                            ReadStatusEntries(NextGnId, targets, n.is_read),
                        <<Call("gn_insert", Ok), Call("read_insert", Ok)>>),
                    out(TRUE, NextGnId, transaksi_notifikasi, gn,
                        global_notifikasi_read,
                        <<Call("gn_insert", Ok), Call("read_insert", Err)>>),
                    out(FALSE, 0, transaksi_notifikasi, gn, global_notifikasi_read,
                        <<Call("gn_insert", Ok), Call("read_insert", Throw)>>)})
        ELSE IF transaksiId = NoTx
        THEN {unchanged(<<>>)}
        ELSE {out(TRUE, NextTnId, tn, global_notifikasi, global_notifikasi_read,
                  <<Call("tn_insert", Ok)>>),
              unchanged(<<Call("tn_insert", Err)>>),
              unchanged(<<Call("tn_insert", Throw)>>)}

createNotification(n, now) ==
    /\ Len(transaksi_notifikasi) < MaxTn \/ n.jenis \notin TransactionTypes
    /\ Len(global_notifikasi) < MaxGn \/ n.jenis \notin GlobalTypes
    /\ \E o \in {[success |-> x.success, id |-> x.id, tn |-> x.tn, gn |-> x.gn,
                  rd |-> x.rd, remote |-> Remote(x.trace)]
                 : x \in CreateNotificationOutcomes(n, now)} :
        /\ transaksi_notifikasi' = o.tn
        /\ global_notifikasi' = o.gn
        /\ global_notifikasi_read' = o.rd
        /\ last' = Completed("createNotification", NoMember, o.id,
                             0, FALSE, o.success, FALSE, o.remote, <<>>)
        /\ UNCHANGED <<transaksi, notificationCache, inflight, screen>>

\* what callers pass: a broadcast carries a broadcast category and optional
\* recipients, a transaction notification carries its transaction either in
\* transaksi_id or inside data
NotificationInputs ==
    [source : Sources, jenis : {"pengumuman"}, is_read : BOOLEAN,
     anggota_id : Members \cup {NoMember}, anggota_ids : {{}},
     transaksi_id : {NoTx}, data_transaksi_id : {NoTx}]
    \cup
    [source : {"global"}, jenis : {"pengumuman"}, is_read : BOOLEAN,
     anggota_id : {NoMember}, anggota_ids : {Members},
     transaksi_id : {NoTx}, data_transaksi_id : {NoTx}]
    \cup
    {n \in [source : {"transaction"}, jenis : TransactionTypes, is_read : BOOLEAN,
            anggota_id : {NoMember}, anggota_ids : {{}},
            transaksi_id : (DOMAIN transaksi) \cup {NoTx},
            data_transaksi_id : (DOMAIN transaksi) \cup {NoTx}] :
        n.transaksi_id = NoTx \/ n.data_transaksi_id = NoTx}

(***************************************************************************)
(* getNotifications                                                        *)
(***************************************************************************)
\* a transaction fetch in which every failure aborts the whole call
FetchTransactionNotifications_Fatal(anggotaId, limit) ==
    {[thrown |-> FALSE, list |-> RpcMemberTransactionNotifications(anggotaId, limit),
      trace |-> <<Call("rpc_tx", Ok)>>],
     [thrown |-> TRUE, list |-> <<>>,
      trace |-> <<Call("rpc_tx", Err), Call("transaksi", Err)>>]}

\* step 2: transaction notifications, RPC first, manual query as fallback
FetchTransactionNotifications(anggotaId, limit) ==
    LET ids == MemberTransactionIds(anggotaId)
        rpcFailed == <<Call("rpc_tx", Err)>>
        out(thrown, list, trace) == [thrown |-> thrown, list |-> list, trace |-> trace]
    IN  {out(FALSE, RpcMemberTransactionNotifications(anggotaId, limit),
             <<Call("rpc_tx", Ok)>>),
         out(TRUE, <<>>, <<Call("rpc_tx", Throw)>>),
         out(TRUE, <<>>, rpcFailed \o <<Call("transaksi", Throw)>>),
         out(FALSE, <<>>, rpcFailed \o <<Call("transaksi", Err)>>)}
        \cup
        (IF ids = {}
         THEN {out(FALSE, <<>>, rpcFailed \o <<Call("transaksi", Ok)>>)}
         ELSE {out(TRUE, <<>>,
                   rpcFailed \o <<Call("transaksi", Ok), Call("tn_in", Throw)>>),
               out(FALSE, <<>>,
                   rpcFailed \o <<Call("transaksi", Ok), Call("tn_in", Err)>>),
               out(FALSE, TransactionNotificationsIn(ids, limit),
                   rpcFailed \o <<Call("transaksi", Ok), Call("tn_in", Ok)>>)})

\* standalone jatuh_tempo query, inside its own try/catch
FetchJatuhTempoNotifications(limit) ==
    {[list |-> TransactionNotificationsOfType("jatuh_tempo", limit),
      trace |-> <<Call("jatuh_tempo", Ok)>>],
     [list |-> <<>>, trace |-> <<Call("jatuh_tempo", Err)>>],
     [list |-> <<>>, trace |-> <<Call("jatuh_tempo", Throw)>>]}

\* readStatusMap built by readStatusData.forEach(item => map.set(...))
ReadStatusMapOf(rows) ==
    [g \in {rows[i].global_notifikasi_id : i \in DOMAIN rows} |->
        LET idx == {i \in DOMAIN rows : rows[i].global_notifikasi_id = g}
        IN  rows[CHOOSE i \in idx : \A j \in idx : j <= i].is_read]

EmptyMap == <<>>

\* a fetch that goes to the join without calling the backend function
FetchGlobalNotifications_JoinFirst(anggotaId) ==
    {[thrown |-> FALSE, list |-> GlobalJoinInner(anggotaId), map |-> EmptyMap,
      trace |-> <<Call("join", Ok)>>]}

\* step 3: global notifications with read status, three strategies
FetchGlobalNotifications(anggotaId) ==
    LET out(thrown, list, map, trace) ==
            [thrown |-> thrown, list |-> list, map |-> map, trace |-> trace]
        fn == RpcMemberGlobalNotifications(anggotaId)
        join == GlobalJoinInner(anggotaId)
        all == AllGlobalNotifications
        a(o) == <<Call("rpc_global", o)>>
        b(o) == <<Call("join", o)>>
        separate(pre) ==
            {out(TRUE, <<>>, EmptyMap, pre \o <<Call("global", Throw)>>)}
            \cup UNION {
                {out(TRUE, <<>>, EmptyMap, pre \o <<Call("global", og), Call("read", Throw)>>),
                 out(FALSE, IF og = Ok THEN all ELSE <<>>, EmptyMap,
                     pre \o <<Call("global", og), Call("read", Err)>>),
                 out(FALSE, IF og = Ok THEN all ELSE <<>>,
                     ReadStatusMapOf(MemberReadRows(anggotaId)),
                     pre \o <<Call("global", og), Call("read", Ok)>>)}
                : og \in {Ok, Err}}
    IN  {out(FALSE, fn, [g \in {fn[i].id : i \in DOMAIN fn} |->
                            (CHOOSE x \in Range(fn) : x.id = g).is_read],
             a(Ok))}
        \cup UNION {
            {out(FALSE, join,
                 [g \in {join[i].id : i \in DOMAIN join} |->
                     (CHOOSE x \in Range(join) : x.id = g).global_notifikasi_read[1].is_read],
                 a(oa) \o b(Ok))}
            \cup UNION {separate(a(oa) \o b(ob)) : ob \in {Err, Throw}}
            : oa \in {Err, Throw}}

FormatTransaction(item) ==
    [id |-> item.id, jenis |-> item.jenis, is_read |-> item.is_read,
     created_at |-> item.created_at, source |-> "transaction",
     transaksi_id |-> item.transaksi_id]

\* a formatter that ignores the read status it was given
FormatGlobal_Unread(item, readStatusMap) ==
    [id |-> item.id, jenis |-> item.jenis, is_read |-> FALSE,
     created_at |-> item.created_at, source |-> "global",
     transaksi_id |-> NoTx]

\* formattedGlobalNotifications: is_read is readStatusMap.get(item.id) ?? false
FormatGlobal(item, readStatusMap) ==
    [id |-> item.id, jenis |-> item.jenis,
     is_read |-> IF item.id \in DOMAIN readStatusMap THEN readStatusMap[item.id]
                 ELSE FALSE,
     created_at |-> item.created_at, source |-> "global",
     transaksi_id |-> NoTx]

\* the merged list left in fetch order
SortNewestFirst_Unsorted(items) == items

\* [...].sort((a, b) => new Date(b.created_at) - new Date(a.created_at))
SortNewestFirst(items) == StableSortDesc(items)

\* steps 4 and 5: format, merge, sort, truncate
Combine(txList, jtList, gList, readStatusMap, limit) ==
    Slice(SortNewestFirst(
              [i \in DOMAIN txList |-> FormatTransaction(txList[i])]
              \o [i \in DOMAIN jtList |-> FormatTransaction(jtList[i])]
              \o [i \in DOMAIN gList |-> FormatGlobal(gList[i], readStatusMap)]),
          limit)

\* a cache that is never consulted
CacheHit_Never(anggotaId, limit, forceRefresh) == FALSE

\* if (!forceRefresh && notificationCache[cacheKey])
CacheHit(anggotaId, limit, forceRefresh) ==
    ~forceRefresh /\ CacheKey(anggotaId, limit) \in DOMAIN notificationCache

\* the body of getNotifications over given outcomes of its three fetches:
\* ret the value returned, cache the cache it leaves, trace the remote calls
GetNotificationsOver(TX, JT, G, anggotaId, limit, forceRefresh) ==
    LET cacheKey == CacheKey(anggotaId, limit)
        out(ret, caught, cache, remote, trace) ==
            [ret |-> ret, caught |-> caught, cache |-> cache, remote |-> remote,
             trace |-> trace]
        caughtOut(trace) == out(<<>>, TRUE, notificationCache, TRUE, trace)
    IN  IF CacheHit(anggotaId, limit, forceRefresh)
        THEN {out(notificationCache[cacheKey], FALSE, notificationCache, FALSE, <<>>)}
        ELSE UNION {
               IF tx.thrown THEN {caughtOut(tx.trace)}
               ELSE UNION {
                      {IF g.thrown
                       THEN caughtOut(tx.trace \o jt.trace \o g.trace)
                       ELSE LET allNotifications ==
                                    Combine(tx.list, jt.list, g.list, g.map, limit)
                            IN  out(allNotifications, FALSE,
                                    CachePut(notificationCache, cacheKey, allNotifications),
                                    TRUE, tx.trace \o jt.trace \o g.trace)
                       : g \in G}
                      : jt \in JT}
               : tx \in TX}

\* every way one call of getNotifications can end in the current state
GetNotificationsOutcomes(anggotaId, limit, forceRefresh) ==
    GetNotificationsOver(FetchTransactionNotifications(anggotaId, limit),
                         FetchJatuhTempoNotifications(limit),
                         FetchGlobalNotifications(anggotaId),
                         anggotaId, limit, forceRefresh)

\* the same, as far as its return value and the cache are concerned
GetNotificationsResults(anggotaId, limit, forceRefresh) ==
    GetNotificationsOver(Untraced(FetchTransactionNotifications(anggotaId, limit)),
                         Untraced(FetchJatuhTempoNotifications(limit)),
                         Untraced(FetchGlobalNotifications(anggotaId)),
                         anggotaId, limit, forceRefresh)

getNotifications(anggotaId, limit, forceRefresh) ==
    \E o \in GetNotificationsResults(anggotaId, limit, forceRefresh) :
        /\ Cardinality(DOMAIN o.cache) <= MaxCached
        /\ notificationCache' = o.cache
        /\ last' = Completed("getNotifications", anggotaId, 0, limit,
                             forceRefresh, FALSE, o.caught, o.remote, o.ret)
        /\ UNCHANGED <<transaksi, transaksi_notifikasi, global_notifikasi,
                       global_notifikasi_read, inflight, screen>>

(***************************************************************************)
(* getNotifications of the earlier version of the service                  *)
(***************************************************************************)
NoJenis == "null"               \* no jenis on the record (null)

\* formattedGlobalNotifications: jenis is item.jenis || 'pengumuman'
FormatGlobalEarlier(item, readStatusMap) ==
    [FormatGlobal(item, readStatusMap) EXCEPT
        !.jenis = IF item.jenis = NoJenis THEN "pengumuman" ELSE item.jenis]

\* the two queries for global notifications and the member's read status:
\* an error of either is logged and its data taken as empty
FetchGlobalSeparately(anggotaId) ==
    {[thrown |-> TRUE, list |-> <<>>, map |-> EmptyMap,
      trace |-> <<Call("global", Throw)>>]}
    \cup UNION {
        {[thrown |-> TRUE, list |-> <<>>, map |-> EmptyMap,
          trace |-> <<Call("global", og), Call("read", Throw)>>],
         [thrown |-> FALSE, list |-> IF og = Ok THEN AllGlobalNotifications ELSE <<>>,
          map |-> EmptyMap, trace |-> <<Call("global", og), Call("read", Err)>>],
         [thrown |-> FALSE, list |-> IF og = Ok THEN AllGlobalNotifications ELSE <<>>,
          map |-> ReadStatusMapOf(MemberReadRows(anggotaId)),
          trace |-> <<Call("global", og), Call("read", Ok)>>]}
        : og \in {Ok, Err}}

\* every way one call of the earlier getNotifications can end
GetNotificationsEarlierOutcomes(anggotaId, limit, forceRefresh) ==
    LET cacheKey == CacheKey(anggotaId, limit)
        out(ret, caught, cache, trace) ==
            [ret |-> ret, caught |-> caught, cache |-> cache, trace |-> trace]
    IN  IF CacheHit(anggotaId, limit, forceRefresh)
        THEN {out(notificationCache[cacheKey], FALSE, notificationCache, <<>>)}
        ELSE UNION {
               IF tx.thrown THEN {out(<<>>, TRUE, notificationCache, tx.trace)}
               ELSE {IF g.thrown
                     THEN out(<<>>, TRUE, notificationCache, tx.trace \o g.trace)
                     ELSE LET allNotifications ==
                                  Slice(SortNewestFirst(
                                      [i \in DOMAIN tx.list |-> FormatTransaction(tx.list[i])]
                                      \o [i \in DOMAIN g.list |->
                                              FormatGlobalEarlier(g.list[i], g.map)]),
                                      limit)
                          IN  out(allNotifications, FALSE,
                                  CachePut(notificationCache, cacheKey, allNotifications),
                                  tx.trace \o g.trace)
                     : g \in FetchGlobalSeparately(anggotaId)}
               : tx \in FetchTransactionNotifications(anggotaId, limit)}

getNotificationsEarlier(anggotaId, limit, forceRefresh) ==
    \E o \in GetNotificationsEarlierOutcomes(anggotaId, limit, forceRefresh) :
        /\ Cardinality(DOMAIN o.cache) <= MaxCached
        /\ notificationCache' = o.cache
        /\ last' = Completed("getNotifications", anggotaId, 0, limit,
                             forceRefresh, FALSE, o.caught, Remote(o.trace), o.ret)
        /\ UNCHANGED <<transaksi, transaksi_notifikasi, global_notifikasi,
                       global_notifikasi_read, inflight, screen>>

clearCache ==
    /\ notificationCache' = EmptyCache
    /\ last' = Completed("clearCache", NoMember, 0, 0, FALSE,
                         FALSE, FALSE, FALSE, <<>>)
    /\ UNCHANGED <<transaksi, transaksi_notifikasi, global_notifikasi,
                   global_notifikasi_read, inflight, screen>>

(***************************************************************************)
(* markAsRead and its two layers                                           *)
(***************************************************************************)
NotFound == "PGRST116"      \* .single() found no row (or more than one)

\* an existence check that finds every id
GnExists_Always(id) == TRUE

TnExists(id) == \E i \in DOMAIN transaksi_notifikasi : transaksi_notifikasi[i].id = id
GnExists(id) == \E i \in DOMAIN global_notifikasi : global_notifikasi[i].id = id

\* an update that flips is_read
SetTransactionRead_Toggle(id) ==
    [i \in DOMAIN transaksi_notifikasi |->
        IF transaksi_notifikasi[i].id = id
        THEN [transaksi_notifikasi[i] EXCEPT !.is_read = ~@]
        ELSE transaksi_notifikasi[i]]

\* update({ is_read: true }).eq("id", id) on transaksi_notifikasi
SetTransactionRead(id) ==
    [i \in DOMAIN transaksi_notifikasi |->
        IF transaksi_notifikasi[i].id = id
        THEN [transaksi_notifikasi[i] EXCEPT !.is_read = TRUE]
        ELSE transaksi_notifikasi[i]]

\* update({ is_read: true }).eq("global_notifikasi_id", id).eq("anggota_id", m)
SetGlobalRead(id, anggotaId) ==
    [i \in DOMAIN global_notifikasi_read |->
        IF /\ global_notifikasi_read[i].global_notifikasi_id = id
           /\ global_notifikasi_read[i].anggota_id = anggotaId
        THEN [global_notifikasi_read[i] EXCEPT !.is_read = TRUE]
        ELSE global_notifikasi_read[i]]

\* The backend promises no row order for global_notifikasi_read; the table
\* is kept by (notification, member), rows of one pair in insertion order.
RowNotAfter(a, b) ==
    \/ a.global_notifikasi_id < b.global_notifikasi_id
    \/ /\ a.global_notifikasi_id = b.global_notifikasi_id
       /\ \A i, j \in DOMAIN MemberOrder :
              MemberOrder[i] = a.anggota_id /\ MemberOrder[j] = b.anggota_id => i <= j

\* insert({ global_notifikasi_id, anggota_id, is_read: true })
InsertGlobalRead(id, anggotaId) ==
    LET row == [global_notifikasi_id |-> id, anggota_id |-> anggotaId, is_read |-> TRUE]
        behind == {i \in DOMAIN global_notifikasi_read :
                      ~RowNotAfter(global_notifikasi_read[i], row)}
        pos == IF behind = {} THEN Len(global_notifikasi_read) + 1
               ELSE CHOOSE i \in behind : \A j \in behind : i <= j
    IN  SubSeq(global_notifikasi_read, 1, pos - 1) \o <<row>>
        \o SubSeq(global_notifikasi_read, pos, Len(global_notifikasi_read))

\* a lookup that never finds the member's row
SingleRow_Never(rows) == FALSE

\* .single() on the (notification, member) lookup: data only for exactly one row
SingleRow(rows) == Len(rows) = 1

\* a guard that lets a call without a member through
MissingMember_Never(anggotaId) == FALSE

\* if (!anggotaId)
MissingMember(anggotaId) == anggotaId = NoMember

Result(ok, tn, rd, trace) == [ok |-> ok, tn |-> tn, rd |-> rd, trace |-> trace]

\* a layer that reports success whatever happened
Failed_AsSuccess(trace) == Result(TRUE, transaksi_notifikasi, global_notifikasi_read, trace)

\* return false: nothing was written
Failed(trace) == Result(FALSE, transaksi_notifikasi, global_notifikasi_read, trace)

\* markAsReadDirectly(notificationId, source, anggotaId)
MarkAsReadDirectly(notificationId, source, anggotaId) ==
    IF source = "transaction"
    THEN {Failed(<<Call("tn_check", Err)>>), Failed(<<Call("tn_check", Throw)>>)}
         \cup
         (IF ~TnExists(notificationId)
          THEN {Failed(<<Call("tn_check", NotFound)>>)}
          ELSE {Result(TRUE, SetTransactionRead(notificationId), global_notifikasi_read,
                       <<Call("tn_check", Ok), Call("tn_update", Ok)>>),
                Failed(<<Call("tn_check", Ok), Call("tn_update", Err)>>),
                Failed(<<Call("tn_check", Ok), Call("tn_update", Throw)>>)})
    ELSE IF source = "global"
    THEN {Failed(<<Call("gn_check", Err)>>), Failed(<<Call("gn_check", Throw)>>)}
         \cup
         (IF ~GnExists(notificationId)
          THEN {Failed(<<Call("gn_check", NotFound)>>)}
          ELSE LET pre == <<Call("gn_check", Ok)>>
                   rows == ReadRows(notificationId, anggotaId)
               IN  {Failed(pre \o <<Call("read_check", Err)>>),
                    Failed(pre \o <<Call("read_check", Throw)>>)}
                   \cup
                   (IF SingleRow(rows)
                    THEN {Result(TRUE, transaksi_notifikasi,
                                 SetGlobalRead(notificationId, anggotaId),
                                 pre \o <<Call("read_check", Ok), Call("read_update", Ok)>>),
                          Failed(pre \o <<Call("read_check", Ok), Call("read_update", Err)>>),
                          Failed(pre \o <<Call("read_check", Ok), Call("read_update", Throw)>>)}
                    ELSE {Result(TRUE, transaksi_notifikasi,
                                 InsertGlobalRead(notificationId, anggotaId),
                                 pre \o <<Call("read_check", NotFound), Call("read_insert", Ok)>>),
                          Failed(pre \o <<Call("read_check", NotFound), Call("read_insert", Err)>>),
                          Failed(pre \o <<Call("read_check", NotFound), Call("read_insert", Throw)>>)}))
    ELSE {Failed(<<>>)}

\* a direct layer that tries the global source before the transaction source
MarkAsReadDirect_GlobalFirst(notificationId, source, anggotaId) ==
    IF MissingMember(anggotaId) THEN {Failed(<<>>)}
    ELSE IF source # NoSource
    THEN MarkAsReadDirectly(notificationId, source, anggotaId)
    ELSE UNION {
           IF g.ok THEN {g}
           ELSE {Result(t.ok, t.tn, t.rd, g.trace \o t.trace)
                 : t \in MarkAsReadDirectly(notificationId, "transaction", anggotaId)}
           : g \in MarkAsReadDirectly(notificationId, "global", anggotaId)}

\* markAsReadDirect(notificationId, source, anggotaId)
MarkAsReadDirect(notificationId, source, anggotaId) ==
    IF MissingMember(anggotaId) THEN {Failed(<<>>)}
    ELSE IF source # NoSource
    THEN MarkAsReadDirectly(notificationId, source, anggotaId)
    ELSE UNION {
           IF t.ok THEN {t}
           ELSE {Result(g.ok, g.tn, g.rd, t.trace \o g.trace)
                 : g \in MarkAsReadDirectly(notificationId, "global", anggotaId)}
           : t \in MarkAsReadDirectly(notificationId, "transaction", anggotaId)}

\* the backend function mark_notification_as_read(notification_id, member_id,
\* notification_source): { success, message }
MarkNotificationAsReadFunction(notificationId, anggotaId, sourceParam) ==
    IF sourceParam \in {"transaction", "auto"} /\ TnExists(notificationId)
    THEN [success |-> TRUE, tn |-> SetTransactionRead(notificationId),
          rd |-> global_notifikasi_read]
    ELSE IF sourceParam \in {"global", "auto"} /\ GnExists(notificationId)
    THEN [success |-> TRUE, tn |-> transaksi_notifikasi,
          rd |-> IF ReadRows(notificationId, anggotaId) = <<>>
                 THEN InsertGlobalRead(notificationId, anggotaId)
                 ELSE SetGlobalRead(notificationId, anggotaId)]
    ELSE [success |-> FALSE, tn |-> transaksi_notifikasi, rd |-> global_notifikasi_read]

\* markAsReadUsingFunction(notificationId, source, anggotaId)
MarkAsReadUsingFunction(notificationId, source, anggotaId) ==
    LET sourceParam == IF source = NoSource THEN "auto" ELSE source
        data == MarkNotificationAsReadFunction(notificationId, anggotaId, sourceParam)
    IN  {Failed(<<Call("rpc_mark", Err)>>), Failed(<<Call("rpc_mark", Throw)>>),
         Result(data.success, data.tn, data.rd, <<Call("rpc_mark", Ok)>>)}

\* a success that leaves the cache alone
CacheAfterMark_Kept(r) == notificationCache

\* the cache after a layer reported r: this.clearCache() on success
CacheAfterMark(r) == IF r.ok THEN EmptyCache ELSE notificationCache

\* every way one call of markAsRead can end in the current state
MarkAsReadOutcomes(notificationId, source, anggotaId) ==
    LET out(r) == [ok |-> r.ok, tn |-> r.tn, rd |-> r.rd, trace |-> r.trace,
                   cache |-> CacheAfterMark(r)]
    IN  IF MissingMember(anggotaId)
        THEN {out(Failed(<<>>))}
        ELSE UNION {
               IF d.ok THEN {out(d)}
               ELSE {out(Result(f.ok, f.tn, f.rd, d.trace \o f.trace))
                     : f \in MarkAsReadUsingFunction(notificationId, source, anggotaId)}
               : d \in MarkAsReadDirect(notificationId, source, anggotaId)}

markAsRead(notificationId, source, anggotaId) ==
    \E o \in {[ok |-> x.ok, tn |-> x.tn, rd |-> x.rd, cache |-> x.cache,
               remote |-> Remote(x.trace)]
              : x \in MarkAsReadOutcomes(notificationId, source, anggotaId)} :
        /\ transaksi_notifikasi' = o.tn
        /\ global_notifikasi_read' = o.rd
        /\ notificationCache' = o.cache
        /\ last' = Completed("markAsRead", anggotaId, notificationId, 0,
                             FALSE, o.ok, FALSE, o.remote, <<>>)
        /\ UNCHANGED <<transaksi, global_notifikasi, inflight, screen>>

(***************************************************************************)
(* markAllAsRead                                                           *)
(***************************************************************************)
\* a bulk update that touches nothing
SetTransactionsRead_None(ids) == transaksi_notifikasi

\* update({ is_read: true }).eq("is_read", false).in("transaksi_id", ids)
SetTransactionsRead(ids) ==
    [i \in DOMAIN transaksi_notifikasi |->
        IF transaksi_notifikasi[i].transaksi_id \in ids /\ ~transaksi_notifikasi[i].is_read
        THEN [transaksi_notifikasi[i] EXCEPT !.is_read = TRUE]
        ELSE transaksi_notifikasi[i]]

\* a bulk update that also writes a row for every broadcast without one
SetMemberGlobalRead_Upsert(anggotaId) ==
    LET untouched == SelectSeq(global_notifikasi,
                               LAMBDA g : ReadRows(g.id, anggotaId) = <<>>)
    IN  [i \in DOMAIN global_notifikasi_read |->
            IF global_notifikasi_read[i].anggota_id = anggotaId
            THEN [global_notifikasi_read[i] EXCEPT !.is_read = TRUE]
            ELSE global_notifikasi_read[i]]
        \o [i \in DOMAIN untouched |->
               [global_notifikasi_id |-> untouched[i].id, anggota_id |-> anggotaId,
                is_read |-> TRUE]]

\* update({ is_read: true }).eq("anggota_id", m).eq("is_read", false)
SetMemberGlobalRead(anggotaId) ==
    [i \in DOMAIN global_notifikasi_read |->
        IF global_notifikasi_read[i].anggota_id = anggotaId /\ ~global_notifikasi_read[i].is_read
        THEN [global_notifikasi_read[i] EXCEPT !.is_read = TRUE]
        ELSE global_notifikasi_read[i]]

\* a flag that forgets the transaction step
Success_GlobalOnly(transactionsOk, globalOk) == globalOk

\* a flag that is false whatever the steps did
Success_Never(transactionsOk, globalOk) == FALSE

\* let success = true, set to false by each step that returned an error
Success(transactionsOk, globalOk) == transactionsOk /\ globalOk

\* every way one call of markAllAsRead can end in the current state
MarkAllAsReadOutcomes(anggotaId) ==
    LET ids == MemberTransactionIds(anggotaId)
        step(thrown, success, tn, trace) ==
            [thrown |-> thrown, success |-> success, tn |-> tn, trace |-> trace]
        first ==
            {step(TRUE, FALSE, transaksi_notifikasi, <<Call("transaksi", Throw)>>),
             step(FALSE, FALSE, transaksi_notifikasi, <<Call("transaksi", Err)>>)}
            \cup
            (IF ids = {}
             THEN {step(FALSE, TRUE, transaksi_notifikasi, <<Call("transaksi", Ok)>>)}
             ELSE {step(TRUE, FALSE, transaksi_notifikasi,
                        <<Call("transaksi", Ok), Call("tn_update_all", Throw)>>),
                   step(FALSE, FALSE, transaksi_notifikasi,
                        <<Call("transaksi", Ok), Call("tn_update_all", Err)>>),
                   step(FALSE, TRUE, SetTransactionsRead(ids),
                        <<Call("transaksi", Ok), Call("tn_update_all", Ok)>>)})
    IN  UNION {
          IF s.thrown
          THEN {Result(FALSE, s.tn, global_notifikasi_read, s.trace)}
          ELSE {Result(FALSE, s.tn, global_notifikasi_read,
                       s.trace \o <<Call("read_update_all", Throw)>>),
                Result(FALSE, s.tn, global_notifikasi_read,
                       s.trace \o <<Call("read_update_all", Err)>>),
                Result(Success(s.success, TRUE), s.tn, SetMemberGlobalRead(anggotaId),
                       s.trace \o <<Call("read_update_all", Ok)>>)}
          : s \in first}

\* a markAllAsRead that clears the cache when it succeeds
markAllAsRead_Clearing(anggotaId) ==
    \E o \in Untraced(MarkAllAsReadOutcomes(anggotaId)) :
        /\ transaksi_notifikasi' = o.tn
        /\ global_notifikasi_read' = o.rd
        /\ notificationCache' = (IF o.ok THEN EmptyCache ELSE notificationCache)
        /\ last' = Completed("markAllAsRead", anggotaId, 0, 0, FALSE,
                             o.ok, FALSE, TRUE, <<>>)
        /\ UNCHANGED <<transaksi, global_notifikasi, inflight, screen>>

markAllAsRead(anggotaId) ==
    \E o \in Untraced(MarkAllAsReadOutcomes(anggotaId)) :
        /\ transaksi_notifikasi' = o.tn
        /\ global_notifikasi_read' = o.rd
        /\ last' = Completed("markAllAsRead", anggotaId, 0, 0, FALSE,
                             o.ok, FALSE, TRUE, <<>>)
        /\ UNCHANGED <<transaksi, global_notifikasi, notificationCache, inflight, screen>>


(***************************************************************************)
(* getNotificationsByType                                                  *)
(***************************************************************************)
\* limit = 20 when the caller gives none
DefaultTypeLimit == 20

TypeLimits == {0, SmallLimit, DefaultTypeLimit}

\* an item of the returned list
FormatByType(item, is_read, source, transaksi_id) ==
    [id |-> item.id, jenis |-> item.jenis, is_read |-> is_read,
     created_at |-> item.created_at, source |-> source, transaksi_id |-> transaksi_id]

\* a filter that lets every category through
KeepType_Any(items, type) == items

\* (data || []).filter((item) => item.jenis === type)
KeepType(items, type) == SelectSeq(items, LAMBDA item : item.jenis = type)

\* the function path: filter by type, slice, map
ByTypeFromFunction(anggotaId, type, limit) ==
    LET filteredData == Slice(KeepType(RpcMemberGlobalNotifications(anggotaId), type), limit)
    IN  [i \in DOMAIN filteredData |->
            FormatByType(filteredData[i], filteredData[i].is_read, "global", NoTx)]

\* from("global_notifikasi").select("..., global_notifikasi_read!left(...)")
\*   .eq("jenis", type).order(created_at desc).limit(limit)
GlobalJoinLeft(type, limit) ==
    LET data == Slice(OrderByCreatedAtDesc(
                          SelectSeq(global_notifikasi, LAMBDA g : g.jenis = type)),
                      limit)
    IN  [i \in DOMAIN data |->
            [id |-> data[i].id, jenis |-> data[i].jenis, created_at |-> data[i].created_at,
             global_notifikasi_read |->
                 SelectSeq(global_notifikasi_read,
                           LAMBDA r : r.global_notifikasi_id = data[i].id)]]

\* the direct-query path: readStatus is the first joined row of the member
ByTypeFromJoin(anggotaId, type, limit) ==
    LET data == GlobalJoinLeft(type, limit)
        readStatus(item) ==
            SelectSeq(item.global_notifikasi_read, LAMBDA r : r.anggota_id = anggotaId)
    IN  [i \in DOMAIN data |->
            FormatByType(data[i],
                         IF readStatus(data[i]) = <<>> THEN FALSE
                         ELSE readStatus(data[i])[1].is_read,
                         "global", NoTx)]

\* the transaction path
ByTypeFromTransactions(type, limit) ==
    LET data == TransactionNotificationsOfType(type, limit)
    IN  [i \in DOMAIN data |->
            FormatByType(data[i], data[i].is_read, "transaction", data[i].transaksi_id)]

\* every way one call of getNotificationsByType can end in the current state
GetNotificationsByTypeOutcomes(anggotaId, type, limit) ==
    LET out(ret, caught, trace) == [ret |-> ret, caught |-> caught, trace |-> trace]
    IN  IF type \in {"pengumuman", "sistem"}
        THEN {out(ByTypeFromFunction(anggotaId, type, limit), FALSE,
                  <<Call("rpc_global", Ok)>>)}
             \cup UNION {
                 {out(ByTypeFromJoin(anggotaId, type, limit), FALSE,
                      <<Call("rpc_global", oa), Call("join_left", Ok)>>),
                  out(<<>>, FALSE, <<Call("rpc_global", oa), Call("join_left", Err)>>),
                  out(<<>>, TRUE, <<Call("rpc_global", oa), Call("join_left", Throw)>>)}
                 : oa \in {Err, Throw}}
        ELSE {out(ByTypeFromTransactions(type, limit), FALSE, <<Call("tn_type", Ok)>>),
              out(<<>>, FALSE, <<Call("tn_type", Err)>>),
              out(<<>>, TRUE, <<Call("tn_type", Throw)>>)}

\* the record of a completed query: Completed, with the category asked for
CompletedQuery(op, anggotaId, jenis, limit, caught, ret) ==
    [op |-> op, anggotaId |-> anggotaId, notificationId |-> 0, limit |-> limit,
     forceRefresh |-> FALSE, ok |-> FALSE, caught |-> caught, remote |-> TRUE,
     ret |-> ret, jenis |-> jenis]

getNotificationsByType(anggotaId, type, limit) ==
    \E o \in Untraced(GetNotificationsByTypeOutcomes(anggotaId, type, limit)) :
        /\ last' = CompletedQuery("getNotificationsByType", anggotaId, type, limit,
                                  o.caught, o.ret)
        /\ UNCHANGED <<store, notificationCache, inflight, screen>>

(***************************************************************************)
(* getNotificationTypeInfo                                                 *)
(***************************************************************************)
\* the categories the table NOTIFICATION_TYPES registers
RegisteredTypes == GlobalTypes \cup TransactionTypes

\* the table: one descriptor per registered category
NOTIFICATION_TYPES ==
    [t \in RegisteredTypes |->
        [name |-> t, icon |-> t, color |-> t,
         isPushEnabled |-> TRUE, isGlobal |-> (t \in GlobalTypes)]]

\* names every object inherits from Object.prototype
InheritedProperties == {"constructor", "toString"}

Undefined == [undefined |-> TRUE]

\* property access that sees own properties only
Property_OwnOnly(type) ==
    IF type \in DOMAIN NOTIFICATION_TYPES THEN NOTIFICATION_TYPES[type] ELSE Undefined

\* NOTIFICATION_TYPES[type]: own properties first, then the prototype chain
Property(type) ==
    IF type \in DOMAIN NOTIFICATION_TYPES THEN NOTIFICATION_TYPES[type]
    ELSE IF type \in InheritedProperties THEN [inherited |-> type]
    ELSE Undefined

DefaultDescriptor ==
    [name |-> "Lainnya", icon |-> "notifications-outline", color |-> "#6c757d",
     isPushEnabled |-> FALSE, isGlobal |-> FALSE]

\* NOTIFICATION_TYPES[type] || { ...default }
TypeInfo(type) ==
    IF Property(type) # Undefined THEN Property(type) ELSE DefaultDescriptor

\* the category strings the model passes
Categories == RegisteredTypes \cup InheritedProperties \cup {"lainnya"}

getNotificationTypeInfo(type) ==
    /\ last' = [CompletedQuery("getNotificationTypeInfo", NoMember, type, 0, FALSE,
                               TypeInfo(type)) EXCEPT !.remote = FALSE]
    /\ UNCHANGED <<store, notificationCache, inflight, screen>>

(***************************************************************************)
(* getUnreadCount                                                          *)
(***************************************************************************)
\* a count of every row of transaksi_notifikasi
UnreadTransactionCount_AllRows == Len(transaksi_notifikasi)

\* select("*", { count: "exact", head: true }).eq("is_read", false)
\* on transaksi_notifikasi
UnreadTransactionCount ==
    Len(SelectSeq(transaksi_notifikasi, LAMBDA r : ~r.is_read))

\* a count of the member's rows whatever their flag
UnreadGlobalCount_AllRows(anggotaId) == Len(MemberReadRows(anggotaId))

\* the same on global_notifikasi_read, with .eq("anggota_id", anggotaId)
UnreadGlobalCount(anggotaId) ==
    Len(SelectSeq(MemberReadRows(anggotaId), LAMBDA r : ~r.is_read))

\* every way one call of getUnreadCount can end in the current state
GetUnreadCountOutcomes(anggotaId) ==
    LET out(ret, caught, trace) == [ret |-> ret, caught |-> caught, trace |-> trace]
        counted == <<Call("tn_count", Ok)>>
    IN  {out(0, TRUE, <<Call("tn_count", Throw)>>),
         out(0, FALSE, <<Call("tn_count", Err)>>),
         out(0, TRUE, counted \o <<Call("read_count", Throw)>>),
         out(UnreadTransactionCount, FALSE, counted \o <<Call("read_count", Err)>>),
         out(UnreadTransactionCount + UnreadGlobalCount(anggotaId), FALSE,
             counted \o <<Call("read_count", Ok)>>)}

\* a count that marks the member's rows read
getUnreadCount_Marking(anggotaId) ==
    \E o \in Untraced(GetUnreadCountOutcomes(anggotaId)) :
        /\ last' = CompletedQuery("getUnreadCount", anggotaId, "", 0, o.caught, o.ret)
        /\ global_notifikasi_read' =
               [i \in DOMAIN global_notifikasi_read |->
                   IF global_notifikasi_read[i].anggota_id = anggotaId
                   THEN [global_notifikasi_read[i] EXCEPT !.is_read = TRUE]
                   ELSE global_notifikasi_read[i]]
        /\ UNCHANGED <<transaksi, transaksi_notifikasi, global_notifikasi,
                       notificationCache, inflight, screen>>

getUnreadCount(anggotaId) ==
    \E o \in Untraced(GetUnreadCountOutcomes(anggotaId)) :
        /\ last' = CompletedQuery("getUnreadCount", anggotaId, "", 0, o.caught, o.ret)
        /\ UNCHANGED <<store, notificationCache, inflight, screen>>

(***************************************************************************)
(* SecuritySetupScreen                                                     *)
(***************************************************************************)
PinLength == 6
Digits == {"1", "2"}            \* the digit keys pressed
Keys == Digits \cup {"del"}
NoAccount == ""                 \* accountId before it is loaded
TempKeys == {"temp_phone_number", "temp_account_id"}

\* prev.slice(0, -1)
DropLast(text) == IF text = <<>> THEN <<>> ELSE SubSeq(text, 1, Len(text) - 1)

\* the screen as first rendered; storage holds what the earlier onboarding
\* steps left
MountedOver(storage) ==
    [pin |-> <<>>, confirmPin |-> <<>>, step |-> "create", isLoading |-> FALSE,
     accountId |-> NoAccount, errorMessage |-> "", route |-> "setup",
     storage |-> storage, loading |-> TRUE, timers |-> <<>>, saving |-> <<>>,
     calls |-> <<>>, dels |-> 0]

Mounted == MountedOver(TempKeys)

\* setTimeout(callback, 300): callbacks of equal delay run in the order set
SetTimeout(callback) == Append(screen.timers, callback)

\* useEffect on mount: loadAccountId
loadAccountId ==
    /\ screen.loading
    /\ \/ /\ "temp_account_id" \in screen.storage
          /\ screen' = [screen EXCEPT !.loading = FALSE, !.accountId = "a1"]
       \/ /\ "temp_account_id" \notin screen.storage
          /\ screen' = [screen EXCEPT !.loading = FALSE,
                           !.errorMessage = "Data akun tidak ditemukan",
                           !.route = "/onboarding/account-validation"]
       \/ screen' = [screen EXCEPT !.loading = FALSE,
                        !.errorMessage = "Terjadi kesalahan"]
    /\ UNCHANGED <<store, notificationCache, last, inflight>>

\* useEffect on errorMessage: cleared after 5 seconds
clearErrorMessage ==
    /\ screen.errorMessage # ""
    /\ screen' = [screen EXCEPT !.errorMessage = ""]
    /\ UNCHANGED <<store, notificationCache, last, inflight>>

\* a key of the keypad, which is rendered while the screen is shown and not
\* loading; the callbacks it sets close over pin and accountId as rendered
handleKeyPress(key) ==
    /\ screen.route = "setup" /\ ~screen.isLoading
    /\ key = "del" => screen.dels < MaxDels
    /\ LET dels == IF key = "del" THEN screen.dels + 1 ELSE screen.dels
       IN  IF screen.step = "create"
           THEN IF key = "del"
                THEN screen' = [screen EXCEPT !.pin = DropLast(@), !.dels = dels]
                ELSE IF Len(screen.pin) < PinLength
                THEN LET newPin == Append(screen.pin, key)
                     IN  IF Len(newPin) = PinLength
                         THEN /\ Len(screen.timers) < MaxTimers
                              /\ screen' = [screen EXCEPT !.pin = newPin,
                                               !.timers = SetTimeout([run |-> "advance"])]
                         ELSE screen' = [screen EXCEPT !.pin = newPin]
                ELSE UNCHANGED screen
           ELSE IF key = "del"
                THEN screen' = [screen EXCEPT !.confirmPin = DropLast(@), !.dels = dels]
                ELSE IF Len(screen.confirmPin) < PinLength
                THEN LET newConfirmPin == Append(screen.confirmPin, key)
                     IN  IF Len(newConfirmPin) = PinLength
                         THEN /\ Len(screen.timers) < MaxTimers
                              /\ screen' = [screen EXCEPT !.confirmPin = newConfirmPin,
                                               !.timers = SetTimeout(
                                                   [run |-> "verify", pin |-> screen.pin,
                                                    newConfirmPin |-> newConfirmPin,
                                                    accountId |-> screen.accountId])]
                         ELSE screen' = [screen EXCEPT !.confirmPin = newConfirmPin]
                ELSE UNCHANGED screen
    /\ UNCHANGED <<store, notificationCache, last, inflight>>

\* savePinToDatabase up to its first await, on the screen after: the call
\* of DatabaseService.setAccountPin is recorded in calls
savePinToDatabase(after, accountId, pinToSave) ==
    IF accountId = NoAccount
    THEN [after EXCEPT !.errorMessage = "Data akun tidak ditemukan"]
    ELSE [after EXCEPT !.isLoading = TRUE,
                       !.calls = Append(@, [accountId |-> accountId, pin |-> pinToSave,
                                            step |-> after.step]),
                       !.saving = Append(@, accountId)]

\* a verification callback that saves whatever was entered first
Timeout_Unverified ==
    /\ screen.timers # <<>>
    /\ LET callback == Head(screen.timers)
           after == [screen EXCEPT !.timers = Tail(@)]
       IN  IF callback.run = "advance"
           THEN screen' = [after EXCEPT !.step = "confirm"]
           ELSE /\ Len(screen.calls) < MaxSaves
                /\ screen' = savePinToDatabase(after, callback.accountId, callback.pin)
    /\ UNCHANGED <<store, notificationCache, last, inflight>>

\* the oldest pending callback runs
Timeout ==
    /\ screen.timers # <<>>
    /\ LET callback == Head(screen.timers)
           after == [screen EXCEPT !.timers = Tail(@)]
       IN  IF callback.run = "advance"
           THEN screen' = [after EXCEPT !.step = "confirm"]
           ELSE IF callback.pin = callback.newConfirmPin
           THEN /\ Len(screen.calls) < MaxSaves
                /\ screen' = savePinToDatabase(after, callback.accountId, callback.pin)
           ELSE screen' = [after EXCEPT
                              !.errorMessage = "PIN yang Anda masukkan tidak cocok",
                              !.pin = <<>>, !.confirmPin = <<>>, !.step = "create"]
    /\ UNCHANGED <<store, notificationCache, last, inflight>>

\* savePinToDatabase from the answer of setAccountPin on
SaveSettled ==
    /\ screen.saving # <<>>
    /\ LET accountId == Head(screen.saving)
           after == [screen EXCEPT !.saving = Tail(@)]
           cleaned == (after.storage \ TempKeys) \cup {"koperasi_auth_account_id"}
       IN  \/ screen' = [after EXCEPT !.errorMessage = "Gagal menyimpan PIN",
                                      !.isLoading = FALSE]
           \/ \E storage \in {after.storage, cleaned} :
                 screen' = [after EXCEPT !.errorMessage = "Terjadi kesalahan",
                                         !.isLoading = FALSE, !.storage = storage]
           \/ screen' = [after EXCEPT !.errorMessage = "Gagal masuk ke akun",
                                      !.isLoading = FALSE, !.storage = cleaned]
           \/ screen' = [after EXCEPT !.storage = cleaned, !.route = "/"]
    /\ UNCHANGED <<store, notificationCache, last, inflight>>

(***************************************************************************)
(* Specifications                                                          *)
(***************************************************************************)
Idle == Completed("init", NoMember, 0, 0, FALSE, FALSE, FALSE, FALSE, <<>>)

\* the callers whose markAsRead calls may overlap
Callers == {"c1", "c2"}

\* a caller that is not inside markAsRead
Outside == [pc |-> "idle", notificationId |-> 0, anggotaId |-> NoMember]

NoneInFlight == [c \in Callers |-> Outside]

\* table transaksi: every transaction belongs to m1
Owners == [t \in TxIds |-> "m1"]

Create == \E n \in NotificationInputs : \E now \in 1..MaxTime : createNotification(n, now)
Get == \E m \in Members : \E limit \in Limits : \E forceRefresh \in BOOLEAN :
           getNotifications(m, limit, forceRefresh)
Mark == \E id \in NotificationIds : \E source \in Sources \cup {NoSource} :
            \E m \in Members \cup {NoMember} : markAsRead(id, source, m)
MarkAll == \E m \in Members : markAllAsRead(m)

\* Spec: the store as the service builds and marks it
Init ==
    /\ transaksi = Owners
    /\ transaksi_notifikasi = <<>>
    /\ global_notifikasi = <<>>
    /\ global_notifikasi_read = <<>>
    /\ notificationCache = EmptyCache
    /\ last = Idle
    /\ inflight = NoneInFlight
    /\ screen = Mounted

Next == Create \/ Mark \/ MarkAll

Spec == Init /\ [][Next]_vars

\* SpecService: every operation of the service on the store it builds
ServiceNext ==
    \/ Create
    \/ Mark
    \/ MarkAll
    \/ \E m \in Members : \E forceRefresh \in BOOLEAN :
          getNotifications(m, DefaultLimit, forceRefresh)
    \/ \E m \in Members : \E type \in {"pengumuman", "jatuh_tempo"} :
          getNotificationsByType(m, type, DefaultTypeLimit)
    \/ \E m \in Members : getUnreadCount(m)

SpecService == Init /\ [][ServiceNext]_vars

\* SpecEarlier: the earlier version of the service over a store whose
\* broadcast may carry no category
CategoryInit ==
    /\ transaksi = Owners
    /\ transaksi_notifikasi = <<>>
    /\ \E jenis \in GlobalTypes \cup {NoJenis} : \E t \in 1..MaxTime :
          global_notifikasi = <<[id |-> MaxTn + 1, jenis |-> jenis, created_at |-> t]>>
    /\ \E members \in SUBSET {"m1"} : \E is_read \in BOOLEAN :
          global_notifikasi_read = ReadStatusEntries(MaxTn + 1, members, is_read)
    /\ notificationCache = EmptyCache
    /\ last = Idle
    /\ inflight = NoneInFlight
    /\ screen = Mounted

EarlierNext ==
    \/ Create
    \/ clearCache
    \/ \E m \in Members : \E limit \in Limits : \E forceRefresh \in BOOLEAN :
          getNotificationsEarlier(m, limit, forceRefresh)

SpecEarlier == CategoryInit /\ [][EarlierNext]_vars

\* SpecPin: the PIN setup screen from its first render; the user chooses a
\* PIN of one repeated digit and may mistype its confirmation
KeysAt(step) == IF step = "create" THEN {"1", "del"} ELSE Keys

PinInit ==
    /\ transaksi = Owners
    /\ transaksi_notifikasi = <<>>
    /\ global_notifikasi = <<>>
    /\ global_notifikasi_read = <<>>
    /\ notificationCache = EmptyCache
    /\ last = Idle
    /\ inflight = NoneInFlight
    /\ \E storage \in {TempKeys, {}} : screen = MountedOver(storage)

PinNext ==
    \/ loadAccountId
    \/ clearErrorMessage
    \/ \E key \in KeysAt(screen.step) : handleKeyPress(key)
    \/ Timeout
    \/ SaveSettled

SpecPin == PinInit /\ [][PinNext]_vars

\* SpecCache: the cache in front of a store that holds one due-date
\* notification of m1 and one broadcast that is not older
CacheInit ==
    /\ transaksi = Owners
    /\ \E t \in 1..MaxTime :
          transaksi_notifikasi =
              <<[id |-> 1, transaksi_id |-> "t1", jenis |-> "jatuh_tempo",
                 is_read |-> FALSE, created_at |-> t]>>
    /\ global_notifikasi = <<[id |-> MaxTn + 1, jenis |-> "pengumuman",
                              created_at |-> MaxTime]>>
    /\ global_notifikasi_read = <<>>
    /\ notificationCache = EmptyCache
    /\ last = Idle
    /\ inflight = NoneInFlight
    /\ screen = Mounted

CacheNext == Get \/ clearCache \/ Mark \/ MarkAll

SpecCache == CacheInit /\ [][CacheNext]_vars

\* SpecRace: markAsRead(G, "global", M) calls of two callers, one step per
\* awaited remote call, over a store that holds one broadcast.  A caller's pc
\* names the remote call whose answer it awaits.

\* the call returns: success clears the cache
Return(c, ok) ==
    /\ notificationCache' = (IF ok THEN EmptyCache ELSE notificationCache)
    /\ last' = Completed("markAsRead", inflight[c].anggotaId, inflight[c].notificationId,
                         0, FALSE, ok, FALSE, TRUE, <<>>)
    /\ UNCHANGED screen
    /\ inflight' = [inflight EXCEPT ![c] = Outside]

\* the call goes on to await another remote call
Await(c, pc) ==
    /\ UNCHANGED screen
    /\ inflight' = [inflight EXCEPT ![c].pc = pc]
    /\ UNCHANGED <<notificationCache, last>>

\* markAsRead entered with a member id: markAsReadDirect, markAsReadDirectly,
\* up to the first await (the existence check on global_notifikasi)
RaceBegin(c, notificationId, anggotaId) ==
    /\ inflight[c].pc = "idle"
    /\ ~MissingMember(anggotaId)
    /\ UNCHANGED screen
    /\ inflight' = [inflight EXCEPT ![c] = [pc |-> "gn_check",
                                           notificationId |-> notificationId,
                                           anggotaId |-> anggotaId]]
    /\ UNCHANGED <<store, notificationCache, last>>

\* the existence check answers: found, or the direct layer has failed
RaceGnCheck(c) ==
    /\ inflight[c].pc = "gn_check"
    /\ \E answer \in {Ok, Err, Throw} :
          IF answer = Ok /\ GnExists(inflight[c].notificationId)
          THEN Await(c, "read_check")
          ELSE Await(c, "rpc_mark")
    /\ UNCHANGED store

\* the read-status lookup answers with the rows the table holds now
RaceReadCheck(c) ==
    /\ inflight[c].pc = "read_check"
    /\ \E answer \in {Ok, Err, Throw} :
          IF answer # Ok THEN Await(c, "rpc_mark")
          ELSE IF SingleRow(ReadRows(inflight[c].notificationId, inflight[c].anggotaId))
          THEN Await(c, "read_update")
          ELSE Await(c, "read_insert")
    /\ UNCHANGED store

\* the update of the row found answers
RaceReadUpdate(c) ==
    /\ inflight[c].pc = "read_update"
    /\ \E answer \in {Ok, Err, Throw} :
          IF answer = Ok
          THEN /\ global_notifikasi_read' =
                      SetGlobalRead(inflight[c].notificationId, inflight[c].anggotaId)
               /\ Return(c, TRUE)
          ELSE /\ UNCHANGED global_notifikasi_read
               /\ Await(c, "rpc_mark")
    /\ UNCHANGED <<transaksi, transaksi_notifikasi, global_notifikasi>>

\* the insert of a new row answers
RaceReadInsert(c) ==
    /\ inflight[c].pc = "read_insert"
    /\ \E answer \in {Ok, Err, Throw} :
          IF answer = Ok
          THEN /\ Len(global_notifikasi_read) < MaxRows
               /\ global_notifikasi_read' =
                      InsertGlobalRead(inflight[c].notificationId, inflight[c].anggotaId)
               /\ Return(c, TRUE)
          ELSE /\ UNCHANGED global_notifikasi_read
               /\ Await(c, "rpc_mark")
    /\ UNCHANGED <<transaksi, transaksi_notifikasi, global_notifikasi>>

\* the fallback function answers
RaceFunction(c) ==
    /\ inflight[c].pc = "rpc_mark"
    /\ \E answer \in {Ok, Err, Throw} :
          IF answer = Ok
          THEN LET data == MarkNotificationAsReadFunction(
                               inflight[c].notificationId, inflight[c].anggotaId, "global")
               IN  /\ Len(data.rd) <= MaxRows
                   /\ global_notifikasi_read' = data.rd
                   /\ Return(c, data.success)
          ELSE /\ UNCHANGED global_notifikasi_read
               /\ Return(c, FALSE)
    /\ UNCHANGED <<transaksi, transaksi_notifikasi, global_notifikasi>>

RaceInit ==
    /\ transaksi = Owners
    /\ transaksi_notifikasi = <<>>
    /\ global_notifikasi = <<[id |-> MaxTn + 1, jenis |-> "pengumuman",
                              created_at |-> MaxTime]>>
    /\ \E members \in {{}, {"m2"}} :
          global_notifikasi_read = ReadStatusEntries(MaxTn + 1, members, FALSE)
    /\ notificationCache = EmptyCache
    /\ last = Idle
    /\ inflight = NoneInFlight
    /\ screen = Mounted

RaceNext ==
    \E c \in Callers :
        \/ \E id \in GnIds : \E m \in Members : RaceBegin(c, id, m)
        \/ RaceGnCheck(c)
        \/ RaceReadCheck(c)
        \/ RaceReadUpdate(c)
        \/ RaceReadInsert(c)
        \/ RaceFunction(c)

SpecRace == RaceInit /\ [][RaceNext]_vars

\* SpecStale: getNotifications one step per awaited remote call, each query
\* reading the tables as they are when it answers, interleaved with whole
\* markAsRead calls of other callers.

\* the call returns ret; cache is the cache it leaves
ListReturn(c, ret, caught, cache) ==
    /\ Cardinality(DOMAIN cache) <= MaxCached
    /\ notificationCache' = cache
    /\ last' = Completed("getNotifications", inflight[c].anggotaId, 0, inflight[c].limit,
                         inflight[c].forceRefresh, FALSE, caught, TRUE, ret)
    /\ UNCHANGED screen
    /\ inflight' = [inflight EXCEPT ![c] = Outside]
    /\ UNCHANGED store

\* a remote call rejected: the outer catch returns [] and stores nothing
ListCaught(c) == ListReturn(c, <<>>, TRUE, notificationCache)

\* steps 4 to 6: format, merge, sort, truncate, store in the cache, return
ListFinish(c, gList, readStatusMap) ==
    LET allNotifications == Combine(inflight[c].tx, inflight[c].jt, gList, readStatusMap,
                                    inflight[c].limit)
    IN  ListReturn(c, allNotifications, FALSE,
                   CachePut(notificationCache,
                            CacheKey(inflight[c].anggotaId, inflight[c].limit),
                            allNotifications))

\* the call goes on to await pc, having recorded what the answer delivered
ListAwait(c, pc, field, value) ==
    /\ UNCHANGED screen
    /\ inflight' = [inflight EXCEPT ![c] = [[@ EXCEPT !.pc = pc] EXCEPT ![field] = value]]
    /\ UNCHANGED <<store, notificationCache, last>>

\* getNotifications up to its first await: the cache check, then the RPC
ListBegin(c, anggotaId, limit, forceRefresh) ==
    /\ inflight[c].pc = "idle"
    /\ Cardinality({d \in Callers : inflight[d].pc # "idle"}) < MaxListing
    /\ IF CacheHit(anggotaId, limit, forceRefresh)
       THEN /\ last' = Completed("getNotifications", anggotaId, 0, limit, forceRefresh,
                                 FALSE, FALSE, FALSE,
                                 notificationCache[CacheKey(anggotaId, limit)])
            /\ UNCHANGED <<store, notificationCache, inflight, screen>>
       ELSE /\ UNCHANGED screen
            /\ inflight' = [inflight EXCEPT ![c] =
                               [pc |-> "rpc_tx", notificationId |-> 0,
                                anggotaId |-> anggotaId, limit |-> limit,
                                forceRefresh |-> forceRefresh, ids |-> {},
                                tx |-> <<>>, jt |-> <<>>, list |-> <<>>]]
            /\ UNCHANGED <<store, notificationCache, last>>

ListRpcTx(c) ==
    /\ inflight[c].pc = "rpc_tx"
    /\ \/ ListAwait(c, "jatuh_tempo", "tx",
                    RpcMemberTransactionNotifications(inflight[c].anggotaId, inflight[c].limit))
       \/ ListAwait(c, "transaksi", "tx", <<>>)
       \/ ListCaught(c)

ListTransaksi(c) ==
    /\ inflight[c].pc = "transaksi"
    /\ \/ LET ids == MemberTransactionIds(inflight[c].anggotaId)
          IN  ListAwait(c, IF ids = {} THEN "jatuh_tempo" ELSE "tn_in", "ids", ids)
       \/ ListAwait(c, "jatuh_tempo", "tx", <<>>)
       \/ ListCaught(c)

ListTnIn(c) ==
    /\ inflight[c].pc = "tn_in"
    /\ \/ ListAwait(c, "jatuh_tempo", "tx",
                    TransactionNotificationsIn(inflight[c].ids, inflight[c].limit))
       \/ ListAwait(c, "jatuh_tempo", "tx", <<>>)
       \/ ListCaught(c)

\* the jatuh_tempo query: an error or a rejected call leaves the list empty
ListJatuhTempo(c) ==
    /\ inflight[c].pc = "jatuh_tempo"
    /\ \/ ListAwait(c, "rpc_global", "jt",
                    TransactionNotificationsOfType("jatuh_tempo", inflight[c].limit))
       \/ ListAwait(c, "rpc_global", "jt", <<>>)

ListRpcGlobal(c) ==
    /\ inflight[c].pc = "rpc_global"
    /\ \/ LET g == CHOOSE x \in FetchGlobalNotifications(inflight[c].anggotaId) :
                       x.trace = <<Call("rpc_global", Ok)>>
          IN  ListFinish(c, g.list, g.map)
       \/ ListAwait(c, "join", "list", <<>>)

ListJoin(c) ==
    /\ inflight[c].pc = "join"
    /\ \/ LET g == CHOOSE x \in FetchGlobalNotifications(inflight[c].anggotaId) :
                       x.trace = <<Call("rpc_global", Err), Call("join", Ok)>>
          IN  ListFinish(c, g.list, g.map)
       \/ ListAwait(c, "global", "list", <<>>)

ListGlobal(c) ==
    /\ inflight[c].pc = "global"
    /\ \/ ListAwait(c, "read", "list", AllGlobalNotifications)
       \/ ListAwait(c, "read", "list", <<>>)
       \/ ListCaught(c)

ListRead(c) ==
    /\ inflight[c].pc = "read"
    /\ \/ ListFinish(c, inflight[c].list,
                     ReadStatusMapOf(MemberReadRows(inflight[c].anggotaId)))
       \/ ListFinish(c, inflight[c].list, EmptyMap)
       \/ ListCaught(c)

StaleNext ==
    \/ \E id \in NotificationIds : \E m \in Members : markAsRead(id, "transaction", m)
    \/ \E c \in Callers :
          \/ \E m \in Members : \E forceRefresh \in BOOLEAN :
                ListBegin(c, m, DefaultLimit, forceRefresh)
          \/ ListRpcTx(c)
          \/ ListTransaksi(c)
          \/ ListTnIn(c)
          \/ ListJatuhTempo(c)
          \/ ListRpcGlobal(c)
          \/ ListJoin(c)
          \/ ListGlobal(c)
          \/ ListRead(c)

SpecStale == CacheInit /\ [][StaleNext]_vars

\* SpecQuery: stores of up to MaxTypeRows notifications of each source, in
\* insertion order, with a read-status row of member m1 for every broadcast
\* and none of m2, read by the three query operations
QueryInit ==
    /\ transaksi = Owners
    /\ \E n \in 0..MaxTypeRows :
          \E jenis \in [1..n -> TransactionTypes] : \E read \in [1..n -> BOOLEAN] :
              transaksi_notifikasi =
                  [i \in 1..n |-> [id |-> i, transaksi_id |-> "t1", jenis |-> jenis[i],
                                   is_read |-> read[i], created_at |-> Min(i, MaxTime)]]
    /\ \E n \in 0..MaxTypeRows :
          \E jenis \in [1..n -> GlobalTypes] : \E read \in [1..n -> BOOLEAN] :
              /\ global_notifikasi =
                     [i \in 1..n |-> [id |-> MaxTypeRows + i, jenis |-> jenis[i],
                                      created_at |-> Min(i, MaxTime)]]
              /\ global_notifikasi_read =
                     [i \in 1..n |-> [global_notifikasi_id |-> MaxTypeRows + i,
                                      anggota_id |-> "m1", is_read |-> read[i]]]
    /\ notificationCache = EmptyCache
    /\ last = Idle
    /\ inflight = NoneInFlight
    /\ screen = Mounted

ByType == \E m \in Members : \E type \in RegisteredTypes : \E limit \in TypeLimits :
              getNotificationsByType(m, type, limit)
Count == \E m \in Members : getUnreadCount(m)
Describe == \E type \in Categories : getNotificationTypeInfo(type)

QueryNext == MarkAll \/ ByType \/ Count \/ Describe

SpecQuery == QueryInit /\ [][QueryNext]_vars

(***************************************************************************)
(* Properties                                                              *)
(***************************************************************************)
IsList(x) == x.op = "getNotifications"
IsMark(x) == x.op = "markAsRead"
IsMarkAll(x) == x.op = "markAllAsRead"

NewestFirst(list) ==
    \A i \in 1..(Len(list) - 1) :
        DateGetTime(list[i].created_at) >= DateGetTime(list[i + 1].created_at)

\* every item of list that carries id is shown as read
ShowsRead(list, id) == \A i \in DOMAIN list : list[i].id = id => list[i].is_read

\* every item of list that carries id is shown as unread
ShowsUnread(list, id) == \A i \in DOMAIN list : list[i].id = id => ~list[i].is_read

Contains(list, id) == \E i \in DOMAIN list : list[i].id = id

\* the rows a read-status table holds for one (notification, member) pair
PairRows(rd, gid, anggotaId) ==
    SelectSeq(rd, LAMBDA r : r.global_notifikasi_id = gid /\ r.anggota_id = anggotaId)

\* the (notification, member) pairs that have a row in a read-status table
Pairs(rd) == {<<rd[i].global_notifikasi_id, rd[i].anggota_id>> : i \in DOMAIN rd}

AllSucceeded(trace) == \A i \in DOMAIN trace : trace[i][2] = Ok

\* C1: the list getNotifications returns is sorted non-increasing by
\* created_at: every item is at least as new as the one after it.
C1_SortedNewestFirst == IsList(last) => NewestFirst(last.ret)

\* a returned list whose newest item, a broadcast, was fetched last
C1_Witness ==
    /\ IsList(last) /\ last.remote /\ Len(last.ret) >= 2
    /\ last.ret[1].source = "global"
    /\ last.ret[1].created_at > last.ret[Len(last.ret)].created_at

\* C2: the list getNotifications returns is never longer than the limit
\* asked for, freshly fetched or served from the cache, whatever fallback
\* paths the fetch took.
C2_LengthWithinLimit == IsList(last) => Len(last.ret) <= last.limit

\* a full list served from the cache while the store holds more
C2_Witness ==
    /\ IsList(last) /\ ~last.remote
    /\ last.limit = SmallLimit /\ Len(last.ret) = SmallLimit
    /\ Len(transaksi_notifikasi) + Len(global_notifikasi) > SmallLimit

\* the second of two consecutive unforced calls for the same member and limit
SecondUnforced ==
    /\ IsList(last) /\ ~last.forceRefresh
    /\ IsList(last') /\ ~last'.forceRefresh
    /\ last'.anggotaId = last.anggotaId /\ last'.limit = last.limit

Repeats == last'.ret = last.ret /\ ~last'.remote

Refetches == IsList(last') /\ last'.forceRefresh => last'.remote

\* C3 as stated: two consecutive unforced getNotifications(M, L) calls
\* return identical results and the second issues no remote call; a forced
\* call always issues the remote queries.
C3_AsStated == [][(SecondUnforced => Repeats) /\ Refetches]_vars

\* C3: two consecutive unforced getNotifications(M, L) calls, the first of
\* which did not end in its exception handler, return identical results and
\* the second issues no remote call; a forced call always issues the remote
\* queries, cached entry or not.
C3_CacheHit == [][(SecondUnforced /\ ~last.caught => Repeats) /\ Refetches]_vars

\* a non-empty list served from the cache
C3_Witness ==
    /\ IsList(last) /\ ~last.forceRefresh /\ ~last.remote /\ ~last.caught
    /\ last.ret # <<>>
    /\ CacheKey(last.anggotaId, last.limit) \in DOMAIN notificationCache

\* the separate read-status query of the third strategy returned an error
ReadStatusLost(trace) == \E i \in DOMAIN trace : trace[i] = Call("read", Err)

\* C4 as stated: after markAsRead(id, source, M) returned true, every forced
\* getNotifications(M, limit) whose result contains id shows it as read.
C4_AsStated ==
    IsMark(last) /\ last.ok =>
        \A limit \in Limits :
            \A o \in GetNotificationsOutcomes(last.anggotaId, limit, TRUE) :
                ShowsRead(o.ret, last.notificationId)

\* C4: after markAsRead(id, source, M) returned true, every forced
\* getNotifications(M, limit) whose result contains id shows it as read,
\* for both sources and every strategy, unless the separate read-status
\* query of the third strategy returned an error.
C4_ReadAfterMark ==
    IsMark(last) /\ last.ok =>
        \A limit \in Limits :
            \A o \in GetNotificationsOutcomes(last.anggotaId, limit, TRUE) :
                ~ReadStatusLost(o.trace) => ShowsRead(o.ret, last.notificationId)

\* a broadcast marked read that a forced list then contains
C4_Witness ==
    /\ IsMark(last) /\ last.ok /\ last.notificationId \in GnIds
    /\ \E o \in GetNotificationsOutcomes(last.anggotaId, DefaultLimit, TRUE) :
          /\ o.trace[Len(o.trace)] = Call("read", Ok)
          /\ Contains(o.ret, last.notificationId)

\* C5: markAsRead without a member id returns false, issues no remote call
\* and changes neither a table nor the cache.
C5_NoMemberNoEffect ==
    [][IsMark(last') /\ last'.anggotaId = NoMember =>
          /\ ~last'.ok /\ ~last'.remote
          /\ UNCHANGED <<store, notificationCache>>]_vars

\* a call without a member id that returned with the cache still filled
C5_Witness ==
    /\ IsMark(last) /\ last.anggotaId = NoMember /\ ~last.ok
    /\ notificationCache # EmptyCache

\* C6: whenever markAsRead returns true, from the direct layer or from the
\* function layer, the cache holds no entry for any member and limit.
C6_CacheEmptied ==
    [][IsMark(last') /\ last'.ok => notificationCache' = EmptyCache]_vars

\* a successful markAsRead of a notification that exists
C6_Witness ==
    /\ IsMark(last) /\ last.ok /\ notificationCache = EmptyCache
    /\ \E i \in DOMAIN global_notifikasi_read :
          /\ global_notifikasi_read[i].anggota_id = last.anggotaId
          /\ global_notifikasi_read[i].is_read

\* C7: after markAllAsRead(M) returned true no unread transaction
\* notification references a transaction of M and no read-status row of M
\* is unread.
C7_NothingUnread ==
    IsMarkAll(last) /\ last.ok =>
        /\ \A i \in DOMAIN transaksi_notifikasi :
              transaksi_notifikasi[i].transaksi_id \in MemberTransactionIds(last.anggotaId)
                  => transaksi_notifikasi[i].is_read
        /\ \A i \in DOMAIN global_notifikasi_read :
              global_notifikasi_read[i].anggota_id = last.anggotaId
                  => global_notifikasi_read[i].is_read

\* a successful markAllAsRead of a member with a notification and a row
C7_Witness ==
    /\ IsMarkAll(last) /\ last.ok
    /\ \E i \in DOMAIN transaksi_notifikasi :
          transaksi_notifikasi[i].transaksi_id \in MemberTransactionIds(last.anggotaId)
    /\ MemberReadRows(last.anggotaId) # <<>>

\* the broadcasts without a read-status row of the member
Untouched(anggotaId) ==
    {global_notifikasi[i].id : i \in DOMAIN global_notifikasi} \
        {global_notifikasi_read[i].global_notifikasi_id :
            i \in {j \in DOMAIN global_notifikasi_read :
                      global_notifikasi_read[j].anggota_id = anggotaId}}

\* C8: markAllAsRead(M) creates no read-status row, the pairs that have a
\* row are the same before and after it, and a broadcast M has no row for is
\* still listed as unread by a forced getNotifications(M).
C8_NoRowCreated ==
    /\ [][IsMarkAll(last') =>
            /\ Len(global_notifikasi_read') = Len(global_notifikasi_read)
            /\ Pairs(global_notifikasi_read') = Pairs(global_notifikasi_read)]_vars
    /\ [](IsMarkAll(last) =>
            \A g \in Untouched(last.anggotaId) : \A limit \in Limits :
                \A o \in GetNotificationsResults(last.anggotaId, limit, TRUE) :
                    ShowsUnread(o.ret, g))

\* a successful markAllAsRead after which a forced list shows an untouched
\* broadcast
C8_Witness ==
    /\ IsMarkAll(last) /\ last.ok
    /\ \E g \in Untouched(last.anggotaId) :
          \E o \in GetNotificationsResults(last.anggotaId, DefaultLimit, TRUE) :
              Contains(o.ret, g)
    /\ \E m \in Members : MemberReadRows(m) # <<>>

\* the transaction notifications on the member's transactions
OwnNotifications(anggotaId) ==
    SelectSeq(transaksi_notifikasi,
              LAMBDA r : r.transaksi_id \in MemberTransactionIds(anggotaId))

\* C9 as stated: when every remote query succeeds and M has t transaction
\* notifications and the store g broadcasts with t + g <= limit,
\* getNotifications(M, limit) returns exactly t + g items and every
\* broadcast without a read-status row of M is listed as unread.
C9_AsStated ==
    \A m \in Members : \A limit \in Limits :
        \A o \in GetNotificationsOutcomes(m, limit, TRUE) :
            AllSucceeded(o.trace)
            /\ Len(OwnNotifications(m)) + Len(global_notifikasi) <= limit =>
                /\ Len(o.ret) = Len(OwnNotifications(m)) + Len(global_notifikasi)
                /\ \A g \in Untouched(m) : ShowsUnread(o.ret, g)

\* the (notification, member) of a successful markAsRead on a broadcast
MarkedBroadcast == IsMark(last') /\ last'.ok /\ last'.notificationId \in GnIds

\* C10: a sequential markAsRead of broadcast G for member M that returns
\* true creates exactly one row (G, M) with is_read = true when there was
\* none, and updates the row and inserts nothing when there was one, so the
\* number of rows for (G, M) stays 1.
C10_OneRowPerPair ==
    [][MarkedBroadcast =>
        LET G == last'.notificationId
            M == last'.anggotaId
            before == PairRows(global_notifikasi_read, G, M)
            after == PairRows(global_notifikasi_read', G, M)
            row == [global_notifikasi_id |-> G, anggota_id |-> M, is_read |-> TRUE]
        IN  /\ Len(before) = 0 =>
                 /\ after = <<row>>
                 /\ Len(global_notifikasi_read') = Len(global_notifikasi_read) + 1
            /\ Len(before) = 1 =>
                 /\ after = <<row>>
                 /\ Len(global_notifikasi_read') = Len(global_notifikasi_read)]_vars

\* a broadcast marked read for a member while another member has a row too
C10_Witness ==
    /\ IsMark(last) /\ last.ok /\ last.notificationId \in GnIds
    /\ PairRows(global_notifikasi_read, last.notificationId, last.anggotaId)
           = <<[global_notifikasi_id |-> last.notificationId,
                anggota_id |-> last.anggotaId, is_read |-> TRUE]>>
    /\ Len(global_notifikasi_read) = 2

\* C11 as stated: in every reachable state, also when two markAsRead calls
\* for the same broadcast and member overlap, the read-status table holds at
\* most one row per (notification, member) pair.
C11_AsStated ==
    \A g \in GnIds : \A m \in Members :
        Len(PairRows(global_notifikasi_read, g, m)) <= 1

\* the aggregation function returned an error and every fallback query succeeded
FallbackSucceeded(trace) ==
    /\ Len(trace) >= 2
    /\ trace[1] = Call("rpc_tx", Err)
    /\ trace[2] = Call("transaksi", Ok)
    /\ \A i \in DOMAIN trace : trace[i][1] = "tn_in" => trace[i] = Call("tn_in", Ok)

\* the lists a forced getNotifications returns when its three fetches end as given
ListsOver(tx, jt, g, anggotaId, limit) ==
    {o.ret : o \in GetNotificationsOver({tx}, {jt}, {g}, anggotaId, limit, TRUE)}

ThrewLast(trace) == trace # <<>> /\ trace[Len(trace)][2] = Throw

\* the last remote call of the trace returned an error or rejected
FailedLast(trace) == trace # <<>> /\ trace[Len(trace)][2] \in {Err, Throw}

IsSequence(x) == DOMAIN x = 1..Len(x)

TransactionCalls == {"tn_check", "tn_update"}
GlobalCalls == {"gn_check", "read_check", "read_update", "read_insert"}

\* the call is a write of the direct layer that succeeded
Wrote(call) == call[2] = Ok /\ call[1] \in {"tn_update", "read_update", "read_insert"}

\* no write of the direct layer succeeded among the first n calls
NothingWritten(trace, n) == \A j \in 1..n : ~Wrote(trace[j])

\* the order of the layers in one completed markAsRead call
LayersInOrder(trace, source) ==
    /\ trace # <<>>
    /\ trace[1][1] = (IF source = "global" THEN "gn_check" ELSE "tn_check")
    /\ source = "transaction" =>
           \A i \in DOMAIN trace : trace[i][1] \in TransactionCalls \cup {"rpc_mark"}
    /\ source = "global" =>
           \A i \in DOMAIN trace : trace[i][1] \in GlobalCalls \cup {"rpc_mark"}
    /\ \A i \in DOMAIN trace :
           trace[i][1] = "gn_check" /\ source = NoSource =>
               /\ i > 1
               /\ NothingWritten(trace, i - 1)
               /\ \A j \in 1..(i - 1) : trace[j][1] \in TransactionCalls
    /\ \A i \in DOMAIN trace :
           trace[i][1] = "rpc_mark" =>
               i = Len(trace) /\ i > 1 /\ NothingWritten(trace, i - 1)

\* some attempt of the call succeeded: a direct write, or the function
SomeAttemptSucceeded(trace, id, source, m) ==
    \/ \E i \in DOMAIN trace : Wrote(trace[i])
    \/ /\ trace[Len(trace)] = Call("rpc_mark", Ok)
       /\ MarkNotificationAsReadFunction(id, m, IF source = NoSource THEN "auto"
                                                ELSE source).success

BothCounted(trace) == trace = <<Call("tn_count", Ok), Call("read_count", Ok)>>

\* the unread rows of transaksi_notifikasi, whoever owns their transaction
UnreadTransactionRows == {i \in DOMAIN transaksi_notifikasi : ~transaksi_notifikasi[i].is_read}

\* the rows of global_notifikasi_read of the member that are flagged unread
UnreadRowsOf(m) ==
    {i \in DOMAIN global_notifikasi_read :
        global_notifikasi_read[i].anggota_id = m /\ ~global_notifikasi_read[i].is_read}

\* C15: when both count queries succeed, getUnreadCount(M) is the number of
\* unread transaction notifications of all members plus the number of M's
\* read-status rows flagged unread; a broadcast without a row for M adds
\* nothing, and the result is never negative.
C15_CountIsSum ==
    \A m \in Members : \A o \in GetUnreadCountOutcomes(m) :
        BothCounted(o.trace) =>
            /\ o.ret = Cardinality(UnreadTransactionRows) + Cardinality(UnreadRowsOf(m))
            /\ MemberReadRows(m) = <<>> => o.ret = Cardinality(UnreadTransactionRows)
            /\ o.ret >= 0

\* getUnreadCount has just returned a positive count to a member who owns no
\* transaction: both counts succeeded and another member's unread
\* transaction notification was counted
C15_Witness ==
    /\ last.op = "getUnreadCount" /\ ~last.caught /\ last.ret > 0
    /\ MemberTransactionIds(last.anggotaId) = {}
    /\ UnreadTransactionRows # {}
    /\ \E o \in GetUnreadCountOutcomes(last.anggotaId) :
          BothCounted(o.trace) /\ o.ret = last.ret

\* every remote call of the trace succeeded
AllOk(trace) == \A i \in DOMAIN trace : trace[i][2] = Ok

\* C16: markAllAsRead(M) returns true exactly when the transaction step and
\* the global step both succeeded, where the transaction step of a member
\* without transactions succeeds without an update; a failure of either
\* step yields false.
C16_TrueIffBothSucceeded ==
    \A m \in Members : \A o \in MarkAllAsReadOutcomes(m) :
        o.ok <=> /\ AllOk(o.trace)
                 /\ o.trace[1][1] = "transaksi"
                 /\ o.trace[Len(o.trace)][1] = "read_update_all"
                 /\ Len(o.trace) = (IF MemberTransactionIds(m) = {} THEN 2 ELSE 3)

\* markAllAsRead has just returned false to a member whose transaction step
\* can fail while the global step succeeds
C16_Witness ==
    /\ last.op = "markAllAsRead" /\ ~last.ok
    /\ MemberTransactionIds(last.anggotaId) # {}
    /\ \E o \in MarkAllAsReadOutcomes(last.anggotaId) :
          /\ ~o.ok
          /\ Call("tn_update_all", Err) \in Range(o.trace)
          /\ Call("read_update_all", Ok) \in Range(o.trace)

C17_WitnessTransactions ==
    /\ last.op = "getNotificationsByType" /\ Len(last.ret) = SmallLimit
    /\ last.limit = SmallLimit
    /\ last.jenis \in TransactionTypes
    /\ \E i \in DOMAIN transaksi_notifikasi : transaksi_notifikasi[i].jenis # last.jenis

\* C18 as stated: getNotificationTypeInfo returns the default descriptor for
\* every category string that the table does not register, and the
\* registered descriptor otherwise.
C18_AsStated ==
    last.op = "getNotificationTypeInfo" =>
        last.ret = (IF last.jenis \in RegisteredTypes THEN NOTIFICATION_TYPES[last.jenis]
                    ELSE DefaultDescriptor)

\* the strategies of one global fetch were tried in order, each after the
\* one before it had failed
StrategiesInOrder(trace) ==
    /\ trace # <<>> /\ trace[1][1] = "rpc_global"
    /\ \A i \in DOMAIN trace :
          /\ trace[i][1] = "rpc_global" => i = 1
          /\ trace[i][1] = "join" => i = 2 /\ trace[1][2] \in {Err, Throw}
          /\ trace[i][1] = "global" =>
                 i = 3 /\ trace[2][1] = "join" /\ trace[2][2] \in {Err, Throw}
          /\ trace[i][1] = "read" => i = 4 /\ trace[3][1] = "global"

\* the list and the read-status lookup are those of the first strategy that
\* succeeded
FromFirstSuccess(g, m) ==
    /\ g.trace[1][2] = Ok =>
           /\ Len(g.trace) = 1
           /\ g.list = RpcMemberGlobalNotifications(m)
           /\ \A i \in DOMAIN g.list : g.map[g.list[i].id] = g.list[i].is_read
    /\ Len(g.trace) >= 2 /\ g.trace[2][2] = Ok =>
           /\ Len(g.trace) = 2
           /\ g.list = GlobalJoinInner(m)
           /\ \A i \in DOMAIN g.list :
                  g.map[g.list[i].id] = g.list[i].global_notifikasi_read[1].is_read
    /\ Len(g.trace) = 4 /\ g.trace[3][2] = Ok /\ g.trace[4][2] = Ok =>
           /\ g.list = AllGlobalNotifications
           /\ g.map = ReadStatusMapOf(MemberReadRows(m))

\* C19: getNotifications tries the backend function, then the join, then
\* the separate queries, each only after the one before it failed, and the
\* global list and read-status lookup it uses are those of the first
\* strategy that succeeded.
C19_StrategiesInOrder ==
    \A m \in Members : \A g \in FetchGlobalNotifications(m) :
        StrategiesInOrder(g.trace) /\ FromFirstSuccess(g, m)

\* a list with a broadcast has just been fetched for a member without a
\* read-status row: the join would list nothing for the member, and the
\* third strategy can be reached and lists the broadcast
C19_Witness ==
    /\ IsList(last) /\ last.remote /\ ~last.caught
    /\ \E i \in DOMAIN last.ret : last.ret[i].source = "global"
    /\ GlobalJoinInner(last.anggotaId) = <<>>
    /\ \E g \in FetchGlobalNotifications(last.anggotaId) :
          Len(g.trace) = 4 /\ ~g.thrown /\ g.list # <<>>

\* the function, the join and the global query of the third strategy failed
AllStrategiesFailed(trace) ==
    /\ Len(trace) >= 3
    /\ \A i \in 1..3 : trace[i][2] \in {Err, Throw}

\* C20 as stated: when all three global strategies fail, by a returned error
\* or by an exception, getNotifications still returns the transaction
\* notifications it fetched, sorted and truncated, with no global item.
C20_AsStated ==
    \A m \in Members : \A limit \in Limits :
        \A tx \in FetchTransactionNotifications(m, limit) :
            \A jt \in FetchJatuhTempoNotifications(limit) :
                \A g \in FetchGlobalNotifications(m) :
                    ~tx.thrown /\ AllStrategiesFailed(g.trace) =>
                        ListsOver(tx, jt, g, m, limit)
                            = {Combine(tx.list, jt.list, <<>>, EmptyMap, limit)}

\* the aggregation function returned an error and the fallback delivered
\* nothing: a lookup returned an error, or the member has no transaction
TransactionSideFailed(trace) ==
    /\ Len(trace) >= 2
    /\ trace[1] = Call("rpc_tx", Err)
    /\ trace[Len(trace)] \in {Call("transaksi", Err), Call("transaksi", Ok),
                              Call("tn_in", Err)}

\* the same, or a call of the transaction fetch rejected
TransactionSideFailedAnyhow(trace) ==
    TransactionSideFailed(trace) \/ ThrewLast(trace)

IdsOf(table) == {table[i].id : i \in DOMAIN table}

\* the direct attempt left both tables as they were and returned false
DirectFailedUntouched(d) ==
    /\ ~d.ok
    /\ d.tn = transaksi_notifikasi
    /\ d.rd = global_notifikasi_read

\* C22: a direct attempt of markAsRead for an id that the targeted source
\* does not hold writes nothing and returns false: no transaction
\* notification is updated for source "transaction", and no read-status row
\* is inserted or updated for source "global".
C22_NotFoundNoEffect ==
    \A id \in NotificationIds : \A m \in Members :
        /\ id \notin IdsOf(transaksi_notifikasi) =>
               \A d \in MarkAsReadDirectly(id, "transaction", m) : DirectFailedUntouched(d)
        /\ id \notin IdsOf(global_notifikasi) =>
               \A d \in MarkAsReadDirectly(id, "global", m) : DirectFailedUntouched(d)

\* markAsRead has just returned false for an id that neither table holds,
\* while a transaction notification and a read-status row are stored
C22_Witness ==
    /\ last.op = "markAsRead" /\ last.remote /\ ~last.ok
    /\ last.anggotaId \in Members
    /\ last.notificationId \notin IdsOf(transaksi_notifikasi) \cup IdsOf(global_notifikasi)
    /\ transaksi_notifikasi # <<>>

\* the lists an unforced getNotifications(m, limit) can return now
ServedUnforced(m, limit) == {o.ret : o \in GetNotificationsResults(m, limit, FALSE)}

\* C23: markAllAsRead leaves the cache as it was, so an unforced
\* getNotifications(M, L) after it still returns the entry cached for
\* (M, L) before the call, unread flags included.
C23_CacheKept ==
    [][IsMarkAll(last') =>
          /\ notificationCache' = notificationCache
          /\ \A m \in Members : \A limit \in Limits :
                CacheKey(m, limit) \in DOMAIN notificationCache =>
                    ServedUnforced(m, limit)' = {notificationCache[CacheKey(m, limit)]}]_vars

\* markAllAsRead has just returned true to a member whose cached list shows
\* a transaction notification as unread that the table now holds as read
C23_Witness ==
    /\ IsMarkAll(last) /\ last.ok
    /\ \E limit \in Limits :
          /\ CacheKey(last.anggotaId, limit) \in DOMAIN notificationCache
          /\ \E i \in DOMAIN notificationCache[CacheKey(last.anggotaId, limit)] :
                LET item == notificationCache[CacheKey(last.anggotaId, limit)][i]
                IN  /\ item.source = "transaction" /\ ~item.is_read
                    /\ \A j \in DOMAIN transaksi_notifikasi :
                          transaksi_notifikasi[j].id = item.id
                              => transaksi_notifikasi[j].is_read

\* the count a call returned when its first query failed, and when its
\* second query failed in one of the given ways
CountOnFailure(m, secondFailures) ==
    \A o \in GetUnreadCountOutcomes(m) :
        /\ o.trace[1][2] \in {Err, Throw} => o.ret = 0 /\ Len(o.trace) = 1
        /\ Len(o.trace) = 2 /\ o.trace[2][2] \in secondFailures =>
               o.ret = Cardinality(UnreadTransactionRows)

\* C24 as stated: getUnreadCount returns 0 when the transaction count query
\* fails, without issuing the global count query, and the transaction count
\* alone when only the global count query fails.
C24_AsStated == \A m \in Members : CountOnFailure(m, {Err, Throw})

\* C24: getUnreadCount returns 0 when the transaction count query fails,
\* without issuing the global count query; it returns the transaction count
\* alone when the global count query returns an error, and 0 when that query
\* rejects.
C24_PartialFailure ==
    \A m \in Members :
        /\ CountOnFailure(m, {Err})
        /\ \A o \in GetUnreadCountOutcomes(m) :
              Len(o.trace) = 2 /\ o.trace[2][2] = Throw => o.ret = 0

\* getUnreadCount has just returned the transaction count alone to a member
\* who has an unread read-status row
C24_Witness ==
    /\ last.op = "getUnreadCount" /\ ~last.caught
    /\ last.ret = Cardinality(UnreadTransactionRows) /\ last.ret > 0
    /\ UnreadRowsOf(last.anggotaId) # {}

\* the flag the table holds for a transaction notification
StoredRead(id) ==
    \A i \in DOMAIN transaksi_notifikasi :
        transaksi_notifikasi[i].id = id => transaksi_notifikasi[i].is_read

\* C25 as stated: once a getNotifications call and a markAsRead call that
\* overlapped have both completed, the cache holds no list that shows a
\* marked transaction notification as unread.
C25_AsStated ==
    inflight = NoneInFlight =>
        \A m \in Members : \A limit \in Limits :
            CacheKey(m, limit) \in DOMAIN notificationCache =>
                \A i \in DOMAIN notificationCache[CacheKey(m, limit)] :
                    LET item == notificationCache[CacheKey(m, limit)][i]
                    IN  item.source = "transaction" /\ StoredRead(item.id) => item.is_read

\* the step wrote table global_notifikasi_read
ReadRowsWritten == global_notifikasi_read' # global_notifikasi_read

\* C26 as stated: only markAsRead and markAllAsRead insert or change a
\* global read-status row.
C26_AsStated ==
    [][ReadRowsWritten => last'.op \in {"markAsRead", "markAllAsRead"}]_vars

\* C26: a global read-status row is changed by markAsRead and markAllAsRead
\* only, and inserted by these and by createNotification only, which adds the
\* rows of the recipients of the broadcast it creates and leaves every
\* existing row as it is; the list and count operations write no row.
C26_ReadRowWriters ==
    [][ReadRowsWritten =>
          \/ last'.op \in {"markAsRead", "markAllAsRead"}
          \/ /\ last'.op = "createNotification"
             /\ Len(global_notifikasi_read') > Len(global_notifikasi_read)
             /\ SubSeq(global_notifikasi_read', 1, Len(global_notifikasi_read))
                    = global_notifikasi_read
             /\ \A i \in Len(global_notifikasi_read) + 1 .. Len(global_notifikasi_read') :
                    /\ global_notifikasi_read'[i].global_notifikasi_id
                           \notin IdsOf(global_notifikasi)
                    /\ global_notifikasi_read'[i].global_notifikasi_id
                           \in IdsOf(global_notifikasi')]_vars

\* createNotification has just inserted an unread row for a recipient of the
\* broadcast it created
C26_Witness ==
    /\ last.op = "createNotification"
    /\ last.notificationId \in IdsOf(global_notifikasi)
    /\ \E i \in DOMAIN global_notifikasi_read :
          /\ global_notifikasi_read[i].global_notifikasi_id = last.notificationId
          /\ ~global_notifikasi_read[i].is_read

\* the category stored on the global record with this id
StoredJenis(id) == (CHOOSE x \in Range(global_notifikasi) : x.id = id).jenis

\* C27 as stated: in the list getNotifications returns, the category of
\* every global item is the category stored on its global record; an absent
\* category stays absent.
C27_AsStated ==
    last.op = "getNotifications" =>
        \A i \in DOMAIN last.ret :
            last.ret[i].source = "global" => last.ret[i].jenis = StoredJenis(last.ret[i].id)

\* the step ran the oldest pending callback of the PIN screen
Fired == screen.timers # <<>> /\ screen'.timers = Tail(screen.timers)

\* the step called DatabaseService.setAccountPin
SaveCalled == Len(screen'.calls) > Len(screen.calls)

\* C28: setAccountPin is called only by the verification callback of a
\* completed confirmation that equals the PIN, with that PIN of 6 digits;
\* the callback of a completed confirmation that differs makes no call and
\* resets the screen to step create with pin and confirmPin empty.
C28_SaveOnlyConfirmed ==
    [][/\ SaveCalled =>
             /\ Fired
             /\ Head(screen.timers).run = "verify"
             /\ Head(screen.timers).newConfirmPin = Head(screen.timers).pin
             /\ Len(Head(screen.timers).newConfirmPin) = PinLength
             /\ screen'.calls = Append(screen.calls,
                                       [accountId |-> Head(screen.timers).accountId,
                                        pin |-> Head(screen.timers).newConfirmPin,
                                        step |-> screen.step])
       /\ Fired /\ Head(screen.timers).run = "verify"
              /\ Head(screen.timers).newConfirmPin # Head(screen.timers).pin =>
             /\ ~SaveCalled
             /\ screen'.step = "create"
             /\ screen'.pin = <<>> /\ screen'.confirmPin = <<>>]_vars

\* a PIN was saved while the message of an earlier mismatch is still shown
C28_Witness ==
    /\ screen.calls # <<>>
    /\ Len(screen.calls[1].pin) = PinLength
    /\ screen.errorMessage = "PIN yang Anda masukkan tidak cocok"

\* the global items a fetch of the global notifications delivers
GlobalItems(g) == {FormatGlobal(g.list[i], g.map) : i \in DOMAIN g.list}

\* the fetch ended with a strategy whose queries all succeeded
StrategySucceeded(g) ==
    /\ ~g.thrown
    /\ \/ g.trace[Len(g.trace)] \in {Call("rpc_global", Ok), Call("join", Ok)}
       \/ /\ g.trace[Len(g.trace)] = Call("read", Ok)
          /\ g.trace[Len(g.trace) - 1] = Call("global", Ok)

\* C29 as stated: over the same store the three strategies for global
\* notifications deliver the same global items with the same is_read flags.
C29_AsStated ==
    \A m \in Members :
        \A g1, g2 \in FetchGlobalNotifications(m) :
            StrategySucceeded(g1) /\ StrategySucceeded(g2) =>
                GlobalItems(g1) = GlobalItems(g2)

\* C30 as stated: the list getNotifications returns holds no notification
\* twice: no two of its items have the same source and id.
C30_AsStated ==
    last.op = "getNotifications" =>
        \A i, j \in DOMAIN last.ret :
            last.ret[i].source = last.ret[j].source /\ last.ret[i].id = last.ret[j].id
                => i = j

\* the transaction-source items of a list all reference a transaction of m
OwnedBy(list, m) ==
    \A i \in DOMAIN list :
        list[i].source = "transaction" =>
            /\ list[i].transaksi_id \in DOMAIN transaksi
            /\ transaksi[list[i].transaksi_id] = m

\* C31 as stated: every transaction-source item of the list getNotifications
\* returns for member M references a transaction owned by M, so that the
\* list does not depend on the transaction notifications of other members.
C31_AsStated == last.op = "getNotifications" => OwnedBy(last.ret, last.anggotaId)

\* the writes of an outcome d of a mark concern member m only: transaction
\* notifications it set read are on m's transactions, rows it wrote are m's
ConcernsOnly(d, m) ==
    /\ \A i \in DOMAIN transaksi_notifikasi :
          d.tn[i].is_read /\ ~transaksi_notifikasi[i].is_read =>
              /\ transaksi_notifikasi[i].transaksi_id \in DOMAIN transaksi
              /\ transaksi[transaksi_notifikasi[i].transaksi_id] = m
    /\ \A r \in Range(d.rd) \ Range(global_notifikasi_read) : r.anggota_id = m

\* C32 as stated: markAsRead(id, source, M) sets is_read on a transaction
\* notification only if it references a transaction owned by M, and inserts
\* or updates only read-status rows of M.
C32_AsStated ==
    \A id \in NotificationIds : \A source \in Sources : \A m \in Members :
        \A d \in MarkAsReadDirectly(id, source, m) : ConcernsOnly(d, m)

\* C33 as stated: getNotifications stores a list in the cache only when every
\* remote query it issued for that list succeeded.
C33_AsStated ==
    \A m \in Members :
        \A o \in GetNotificationsOutcomes(m, DefaultLimit, TRUE) :
            /\ ~o.caught
            /\ CacheKey(m, DefaultLimit) \in DOMAIN o.cache
            /\ o.cache[CacheKey(m, DefaultLimit)] = o.ret
            => \A i \in DOMAIN o.trace : o.trace[i][2] = Ok

\* the step kept every record of both tables, and every is_read that was true
ReadStateKept ==
    /\ \A i \in DOMAIN transaksi_notifikasi :
          \E j \in DOMAIN transaksi_notifikasi' :
              /\ transaksi_notifikasi'[j].id = transaksi_notifikasi[i].id
              /\ transaksi_notifikasi[i].is_read => transaksi_notifikasi'[j].is_read
    /\ \A i \in DOMAIN global_notifikasi_read :
          \E j \in DOMAIN global_notifikasi_read' :
              /\ global_notifikasi_read'[j].global_notifikasi_id
                     = global_notifikasi_read[i].global_notifikasi_id
              /\ global_notifikasi_read'[j].anggota_id = global_notifikasi_read[i].anggota_id
              /\ global_notifikasi_read[i].is_read => global_notifikasi_read'[j].is_read

\* C34: read state is monotonic: no operation of the service deletes a
\* transaction notification or a read-status row, or sets an is_read that is
\* true back to false.
C34_ReadMonotonic == [][ReadStateKept]_vars

\* an operation other than a mark has completed on a store that holds a read
\* transaction notification and a read row
C34_Witness ==
    /\ last.op \in {"createNotification", "getNotifications", "getUnreadCount",
                    "getNotificationsByType"}
    /\ \E i \in DOMAIN transaksi_notifikasi : transaksi_notifikasi[i].is_read
    /\ \E i \in DOMAIN global_notifikasi_read : global_notifikasi_read[i].is_read

\* C35 as stated: right after markAllAsRead(M) has returned true,
\* getUnreadCount(M) returns 0, whatever the store holds for other members.
C35_AsStated ==
    [][\A m \in Members :
          IsMarkAll(last') /\ last'.ok /\ last'.anggotaId = m =>
              \A o \in GetUnreadCountOutcomes(m)' : o.ret = 0]_vars

\* C36 as stated: whenever markAllAsRead(M) returns false, the call has
\* changed no transaction notification and no read-status row.
C36_AsStated ==
    \A m \in Members :
        \A o \in MarkAllAsReadOutcomes(m) :
            ~o.ok => o.tn = transaksi_notifikasi /\ o.rd = global_notifikasi_read

\* C36: whenever markAllAsRead(M) returns false, at most one of its two
\* updates was applied: either the transaction notifications or the
\* read-status rows are as before the call, and a call that failed by a
\* rejected first query or with both steps in error has changed nothing.
C36_OneStepAtMost ==
    \A m \in Members :
        \A o \in MarkAllAsReadOutcomes(m) :
            ~o.ok =>
                /\ o.tn = transaksi_notifikasi \/ o.rd = global_notifikasi_read
                /\ o.trace[1][2] = Throw \/ (\A i \in DOMAIN o.trace : o.trace[i][2] # Ok) =>
                       o.tn = transaksi_notifikasi /\ o.rd = global_notifikasi_read

\* markAllAsRead has returned false to a member whose transaction
\* notifications are read while a row of the member is still unread
C36_Witness ==
    /\ IsMarkAll(last) /\ ~last.ok
    /\ \E i \in DOMAIN transaksi_notifikasi :
          /\ transaksi_notifikasi[i].is_read
          /\ transaksi[transaksi_notifikasi[i].transaksi_id] = last.anggotaId
    /\ \E i \in DOMAIN global_notifikasi_read :
          /\ ~global_notifikasi_read[i].is_read
          /\ global_notifikasi_read[i].anggota_id = last.anggotaId

\* C37 as stated: every transaction-source item getNotificationsByType
\* returns to member M for a category of the transaction source references
\* a transaction owned by M.
C37_AsStated ==
    last.op = "getNotificationsByType" /\ last.jenis \in TransactionTypes =>
        OwnedBy(last.ret, last.anggotaId)

\* C38 as stated: whenever the step of the PIN screen is confirm, pin has
\* exactly 6 digits; pin and confirmPin never have more than 6.
C38_AsStated ==
    /\ screen.step = "confirm" => Len(screen.pin) = PinLength
    /\ Len(screen.pin) <= PinLength
    /\ Len(screen.confirmPin) <= PinLength

\* C39 as stated: the PIN screen never has two calls of setAccountPin under
\* way for one PIN setup, and never calls it while the step is create, that
\* is after a mismatch has reset the inputs.
C39_AsStated ==
    /\ Len(screen.saving) <= 1
    /\ \A i \in DOMAIN screen.calls : screen.calls[i].step # "create"

====
